---- MODULE Spec2Model ----
(***************************************************************************)
(* Voice-first idea submission UI: the Page (mode controller, Process),    *)
(* the draft form (IdeaForm: edits, clarification, submission, toasts)     *)
(* and the two microphone users (AudioRecorder, the form's voice answer).  *)
(*                                                                         *)
(* Conventions.  A JavaScript string is a sequence of characters, so that  *)
(* trim() is computed, not assumed.  null/undefined of a nullable state is *)
(* the empty sequence None and a present value v is <<v>>.  A confidence   *)
(* in [0,1] is kept in hundredths (1 is 100).                              *)
(***************************************************************************)
EXTENDS Integers, Sequences, FiniteSets, TLC

\* ------------------------------------------------------------------ bounds
\* local field edits per mounted form
MaxEdits == 2
\* toast expiry timers pending at once
MaxTimers == 1
\* device streams the platform hands out
MaxStreams == 2
\* AudioRecorder instances with activity left (the mounted one and earlier ones)
MaxInst == 2
\* getUserMedia requests pending per component instance
MaxPending == 2
\* ticks of the elapsed-time counter
MaxSeconds == 1

\* ------------------------------------------------------------ JS values
None == <<>>
Some(v) == <<v>>
IsNull(o) == o = <<>>
Val(o) == o[1]

\* a non-string falsy field value (null / undefined)
Nul == <<"undefined">>
IsString(v) == v # Nul

IsSpace(c) == c = " "

RECURSIVE TrimStart(_)
TrimStart(s) ==
  IF s = <<>> THEN <<>>
  ELSE IF IsSpace(Head(s)) THEN TrimStart(Tail(s)) ELSE s

RECURSIVE TrimEnd(_)
TrimEnd(s) ==
  IF s = <<>> THEN <<>>
  ELSE IF IsSpace(s[Len(s)]) THEN TrimEnd(SubSeq(s, 1, Len(s) - 1)) ELSE s

\* String.prototype.trim
Trim(s) == TrimEnd(TrimStart(s))

\* ------------------------------------------------------------- lib/types
InputModes == {"record", "upload", "text"}

REQUIRED_FIELDS ==
  <<"title", "summary", "problem", "proposed_solution", "target_audience",
    "expected_impact">>

RequiredSet == {REQUIRED_FIELDS[i] : i \in 1..Len(REQUIRED_FIELDS)}

\* keyof DraftIdea
DraftKeys == RequiredSet \cup {"category", "priority", "keywords"}

\* the keys the form renders an input for
EditableKeys == RequiredSet \cup {"category", "priority"}

Meta(status, confidence) == [status |-> status, confidence |-> confidence]

NoMeta == [k \in DraftKeys |-> None]

NoDraft == [k \in DraftKeys |-> Nul]

\* ---------------------------------------------------------------- labelOf
KeyChars(k) ==
  CASE k = "title" -> <<"t","i","t","l","e">>
    [] k = "summary" -> <<"s","u","m","m","a","r","y">>
    [] k = "problem" -> <<"p","r","o","b","l","e","m">>
    [] k = "proposed_solution" ->
         <<"p","r","o","p","o","s","e","d","_","s","o","l","u","t","i","o","n">>
    [] k = "target_audience" ->
         <<"t","a","r","g","e","t","_","a","u","d","i","e","n","c","e">>
    [] k = "expected_impact" ->
         <<"e","x","p","e","c","t","e","d","_","i","m","p","a","c","t">>
    [] k = "category" -> <<"c","a","t","e","g","o","r","y">>
    [] k = "priority" -> <<"p","r","i","o","r","i","t","y">>
    [] OTHER -> <<"k","e","y","w","o","r","d","s">>

LowerCase ==
  <<"a","b","c","d","e","f","g","h","i","j","k","l","m",
    "n","o","p","q","r","s","t","u","v","w","x","y","z">>

UpperCase ==
  <<"A","B","C","D","E","F","G","H","I","J","K","L","M",
    "N","O","P","Q","R","S","T","U","V","W","X","Y","Z">>

\* c.toUpperCase()
ToUpper(c) ==
  IF \E i \in 1..Len(LowerCase) : LowerCase[i] = c
  THEN UpperCase[CHOOSE i \in 1..Len(LowerCase) : LowerCase[i] = c]
  ELSE c

\* \w
IsWordChar(c) ==
  \/ \E i \in 1..Len(LowerCase) : LowerCase[i] = c \/ UpperCase[i] = c
  \/ c = "_"

\* k.replace(/_/g, " ")
Unscore(s) == [i \in 1..Len(s) |-> IF s[i] = "_" THEN " " ELSE s[i]]

\* s.replace(/\b\w/g, c => c.toUpperCase())
Capitalize(s) ==
  [i \in 1..Len(s) |->
     IF IsWordChar(s[i]) /\ (i = 1 \/ ~IsWordChar(s[i - 1]))
     THEN ToUpper(s[i]) ELSE s[i]]

labelOf(k) == Capitalize(Unscore(KeyChars(k)))

\* ------------------------------------------------------- the environment
\* what the user types into a text input or textarea
TypedTexts == {<<>>, <<" ">>, <<" ", "a">>}

X == <<"x">>

\* what the user puts into field k of the form
EditValues(k) ==
  IF k = "priority" THEN {Nul, <<"low">>, <<"high">>}
  ELSE {<<>>, <<" ">>, <<"y">>}

Dr(t, s, p, ps, ta, ei, c, pr) ==
  [k \in DraftKeys |->
     CASE k = "title" -> t
       [] k = "summary" -> s
       [] k = "problem" -> p
       [] k = "proposed_solution" -> ps
       [] k = "target_audience" -> ta
       [] k = "expected_impact" -> ei
       [] k = "category" -> c
       [] k = "priority" -> pr
       [] OTHER -> Nul]

\* bodies of 2xx answers of /v1/voice/extract and /v1/voice/clarify
RespTitleEmpty ==
  [draft |-> Dr(<<>>, X, X, X, X, X, Nul, Nul),
   field_meta |->
     Some([NoMeta EXCEPT !["title"] = Some(Meta("missing", 0)),
                         !["summary"] = Some(Meta("guessed", 60)),
                         !["problem"] = Some(Meta("confirmed", 90))]),
   missing_fields |-> Some(<<"title">>),
   questions |-> Some(<<"What is the title?">>)]

RespFull ==
  [draft |-> Dr(X, X, X, X, X, X, X, <<"low">>),
   field_meta |-> None,
   missing_fields |-> None,
   questions |-> None]

RespBlanks ==
  [draft |-> Dr(X, <<" ">>, Nul, <<>>, <<" ", "x", " ">>, X, <<>>, Nul),
   field_meta |->
     Some([NoMeta EXCEPT !["summary"] = Some(Meta("guessed", 30)),
                         !["category"] = Some(Meta("missing", 0))]),
   missing_fields |-> Some(<<>>),
   questions |-> Some(<<"Who benefits?", "What changes?">>)]

\* the backend found nothing: `draft: {}` and no other member
RespEmpty ==
  [draft |-> NoDraft,
   field_meta |-> None,
   missing_fields |-> None,
   questions |-> None]

Responses == {RespTitleEmpty, RespFull, RespBlanks, RespEmpty}

\* bodies of 2xx answers of /v1/voice/transcribe
TranscribeResponses ==
  { [transcript |-> <<" ">>, language |-> "unknown", dialect_hint |-> None],
    [transcript |-> <<" ", "t">>, language |-> "ar",
     dialect_hint |-> Some("emirati")] }

\* identifiers /v1/ideas assigns
Ids == {"id-1", "id-2"}

\* a call that does not answer 2xx: a non-2xx response, or fetch rejecting
Failures ==
  { [kind |-> "http", status |-> "500", text |-> "",
     statusText |-> "Internal Server Error"],
    [kind |-> "http", status |-> "422", text |-> "bad request",
     statusText |-> "Unprocessable Entity"],
    [kind |-> "network", status |-> "", text |-> "", statusText |-> ""] }

\* files the user can pick in upload mode
UploadFiles ==
  { [name |-> "a.mp3", type |-> "audio/mpeg", data |-> <<>>],
    [name |-> "b.wav", type |-> "audio/wav", data |-> <<>>] }

\* ---------------------------------------------------------------- lib/api
\* http() without the res.statusText fallback
HttpErrorBodyOnly(f) ==
  IF f.kind = "http" THEN <<"API ", f.status, ": ", f.text>>
  ELSE <<"Failed to fetch">>

\* the Error http() throws: `API ${res.status}: ${text || res.statusText}`
HttpError(f) ==
  IF f.kind = "http"
  THEN <<"API ", f.status, ": ", IF f.text # "" THEN f.text ELSE f.statusText>>
  ELSE <<"Failed to fetch">>

\* e?.message || fallback
MessageOr(msg, fallback) == IF msg # <<>> THEN msg ELSE <<fallback>>

\* what the browser offers: whether window.MediaRecorder exists, the
\* encodings MediaRecorder.isTypeSupported accepts, and the encoding a
\* recorder created without one reports as rec.mimeType (a browser may
\* report its own container there, or leave it empty)
Platforms ==
  { [recorder |-> TRUE, types |-> {"audio/webm;codecs=opus", "audio/webm"},
     default |-> "audio/webm;codecs=opus"],
    [recorder |-> TRUE, types |-> {"audio/ogg;codecs=opus", "audio/ogg"},
     default |-> "audio/ogg;codecs=opus"],
    [recorder |-> TRUE, types |-> {}, default |-> ""],
    [recorder |-> TRUE, types |-> {}, default |-> "audio/mp4"],
    [recorder |-> FALSE, types |-> {}, default |-> ""] }

\* how the code after `await getUserMedia` can end once the stream is there:
\* it runs through, new MediaRecorder throws, or rec.start() throws
Outcomes == {"ok", "ctorThrows", "startThrows"}

\* ------------------------------------------------------------------ state
VARIABLES
  \* Page (useState)
  mode, audioFile, manualText, transcribe, extraction, busy, error,
  \* Page.runProcess: the call it awaits
  proc,
  \* IdeaForm (useState); the initial values when no form is mounted
  draft, questions, missingFields, fieldMeta, answersText,
  isClarifying, isSubmitting, isRecording, isTranscribing, toast,
  \* IdeaForm (useRef)
  mediaRecorderRef, chunksRef, streamRef,
  \* IdeaForm: the calls runClarification and runSubmit await, the pending
  \* toast timers, the local edits made since the form was mounted, the
  \* getUserMedia requests of startRecording pending (of the mounted form,
  \* of unmounted forms), the blobs whose transcribeAndFill awaits its call
  clar, sub, toastTimers, edits, fmStarts, fmGhostStarts, voice,
  \* AudioRecorder (useState) of the mounted instance
  arPermissionError, arIsRecording, arSeconds, arAudioUrl,
  \* AudioRecorder: the mounted instance (0: none), and per instance the
  \* refs (streamRef, recorderRef, chunksRef, timerRef) and the getUserMedia
  \* requests of start() pending
  arInst, arStreamRef, arRecorderRef, arChunksRef, arTimerRef, arStarts,
  \* the browser: its encodings, the device streams handed out so far, the
  \* times each stream's tracks were stopped, the MediaRecorder of each stream
  platform, nStreams, released, recs,
  \* the toast timers the specification lets be pending at once (MaxTimers,
  \* or more where overlapping notifications are followed)
  timerCap,
  \* the handler or callback that ran last
  lastOp,
  \* the submissions sent by forms that have left the tree since, and whose
  \* submitIdea call has not returned; null in the specifications that do
  \* not follow these calls
  subGhosts,
  \* while a run of runProcess awaits a call and the user has touched nothing
  \* since: what was shown when Process was triggered
  procBefore

pageVars ==
  <<mode, audioFile, manualText, transcribe, extraction, busy, error, proc,
    procBefore>>

formDataVars == <<draft, questions, missingFields, fieldMeta, edits>>

formCallVars == <<isClarifying, isSubmitting, clar, sub>>

formVoiceVars ==
  <<isRecording, isTranscribing, mediaRecorderRef, chunksRef, streamRef,
    fmStarts, voice>>

toastVars == <<toast, toastTimers>>

ghostVars == <<fmGhostStarts, subGhosts>>

\* chosen at the start and never changed
fixedVars == <<platform, timerCap>>

formVars ==
  <<formDataVars, answersText, formCallVars, formVoiceVars, toastVars>>

arStateVars == <<arPermissionError, arIsRecording, arSeconds, arAudioUrl>>

arRefVars == <<arStreamRef, arRecorderRef, arChunksRef, arTimerRef, arStarts>>

arVars == <<arStateVars, arInst, arRefVars>>

deviceVars == <<nStreams, released, recs>>

vars ==
  <<pageVars, formVars, ghostVars, arVars, fixedVars, deviceVars, lastOp>>

Idle == [pc |-> "idle", req |-> None]
Pending(pc, req) == [pc |-> pc, req |-> Some(req)]

Streams == 1..MaxStreams
Insts == 1..MaxInst

NoRec == [state |-> "none", owner |-> "none", inst |-> 0, mimeType |-> ""]

\* ------------------------------------------------------------------- Page
\* transcriptText (useMemo)
transcriptText ==
  IF mode = "text" THEN Trim(manualText)
  ELSE IF IsNull(transcribe) THEN <<>>
  ELSE Trim(Val(transcribe).transcript)

\* {extraction ? <IdeaForm .../> : ...}
FormMounted == ~IsNull(extraction)

\* --------------------------------------------------------------- IdeaForm
\* the test of completeness and stillMissing:
\* typeof v === "string" ? v.trim().length > 0 : !!v
HasValue(v) == IF IsString(v) THEN Len(Trim(v)) > 0 ELSE FALSE

RECURSIVE Filter(_, _)
Filter(fs, d) ==
  IF fs = <<>> THEN <<>>
  ELSE IF HasValue(d[Head(fs)]) THEN <<Head(fs)>> \o Filter(Tail(fs), d)
  ELSE Filter(Tail(fs), d)

RECURSIVE FilterNot(_, _)
FilterNot(fs, d) ==
  IF fs = <<>> THEN <<>>
  ELSE IF ~HasValue(d[Head(fs)]) THEN <<Head(fs)>> \o FilterNot(Tail(fs), d)
  ELSE FilterNot(Tail(fs), d)

\* Math.floor in place of Math.round
RoundPercentFloor(have, n) == (100 * have) \div n

\* Math.round(have / n * 100) for 0 <= have <= n: floor(100 have / n + 1/2)
RoundPercent(have, n) == (200 * have + n) \div (2 * n)

\* completeness (useMemo)
CompletenessOf(d) ==
  RoundPercent(Len(Filter(REQUIRED_FIELDS, d)), Len(REQUIRED_FIELDS))

completeness == CompletenessOf(draft)

\* stillMissing without the trim: white space counts as a value
StillMissingNoTrim(d) ==
  SelectSeq(REQUIRED_FIELDS, LAMBDA k : d[k] = Nul \/ d[k] = <<>>)

\* stillMissing (useMemo)
StillMissingOf(d) == FilterNot(REQUIRED_FIELDS, d)

stillMissing == StillMissingOf(draft)

\* stillMissing.map(labelOf); join(", ") keeps the order
MapLabel(fs) == [i \in 1..Len(fs) |-> labelOf(fs[i])]

\* x || fallback for an optional member of a response
OrElse(o, fallback) == IF IsNull(o) THEN fallback ELSE Val(o)

\* showToast: setToast, and a timer that clears whatever toast is shown then.
\* The texts are the code's without their emoji
CanToast == toastTimers < timerCap

ShowToast(type, text) ==
  /\ toast' = Some([type |-> type, text |-> text])
  /\ toastTimers' = toastTimers + 1

\* useState and useRef initialisers, run when the form is mounted with ex
FormMount(ex) ==
  /\ draft' = ex.draft
  /\ questions' = OrElse(ex.questions, <<>>)
  /\ missingFields' = OrElse(ex.missing_fields, <<>>)
  /\ fieldMeta' = OrElse(ex.field_meta, NoMeta)
  /\ answersText' = <<>>
  /\ isClarifying' = FALSE
  /\ isSubmitting' = FALSE
  /\ isRecording' = FALSE
  /\ isTranscribing' = FALSE
  /\ toast' = None
  /\ mediaRecorderRef' = 0
  /\ chunksRef' = <<>>
  /\ streamRef' = 0
  /\ clar' = Idle
  /\ sub' = Idle
  /\ toastTimers' = 0
  /\ edits' = 0
  /\ fmStarts' = 0
  /\ voice' = <<>>
  /\ UNCHANGED ghostVars

\* the form leaves the tree (extraction becomes null): its state is gone. Its
\* pending calls and timers are not cancelled; what they do later only
\* reaches setters of the unmounted component, except for the microphone:
\* its getUserMedia requests and its recorders live on
FormUnmount ==
  /\ draft' = NoDraft
  /\ questions' = <<>>
  /\ missingFields' = <<>>
  /\ fieldMeta' = NoMeta
  /\ answersText' = <<>>
  /\ isClarifying' = FALSE
  /\ isSubmitting' = FALSE
  /\ isRecording' = FALSE
  /\ isTranscribing' = FALSE
  /\ toast' = None
  /\ mediaRecorderRef' = 0
  /\ chunksRef' = <<>>
  /\ streamRef' = 0
  /\ clar' = Idle
  /\ sub' = Idle
  /\ toastTimers' = 0
  /\ edits' = 0
  /\ fmStarts' = 0
  /\ voice' = <<>>
  /\ fmGhostStarts' = fmGhostStarts + fmStarts
  /\ subGhosts' = IF IsNull(subGhosts) \/ sub.pc # "submit" THEN subGhosts
                  ELSE Some(Val(subGhosts) \cup {Val(sub.req)})

\* the recorders of a form that left the tree belong to no mounted form
GhostForm(rs) ==
  [r \in Streams |->
     IF rs[r].owner = "form" THEN [rs[r] EXCEPT !.inst = 0] ELSE rs[r]]

\* updateField without setFieldMeta
UpdateFieldKeepsMeta(k, value) ==
  /\ FormMounted
  /\ edits < MaxEdits
  /\ draft' = [draft EXCEPT ![k] = value]
  /\ fieldMeta' = fieldMeta
  /\ edits' = edits + 1
  /\ lastOp' = "updateField"
  /\ UNCHANGED <<pageVars, questions, missingFields, answersText, formCallVars,
                 formVoiceVars, toastVars, ghostVars, arVars, fixedVars,
                 deviceVars>>

\* updateField(k, value), from the onChange of the input of field k
UpdateField(k, value) ==
  /\ FormMounted
  /\ edits < MaxEdits
  /\ draft' = [draft EXCEPT ![k] = value]
  /\ fieldMeta' = [fieldMeta EXCEPT ![k] = Some(Meta("confirmed", 100))]
  /\ edits' = edits + 1
  /\ lastOp' = "updateField"
  /\ UNCHANGED <<pageVars, questions, missingFields, answersText, formCallVars,
                 formVoiceVars, toastVars, ghostVars, arVars, fixedVars,
                 deviceVars>>

\* onChange of the answers textarea
SetAnswersText(v) ==
  /\ FormMounted
  /\ answersText' = v
  /\ lastOp' = "setAnswersText"
  /\ UNCHANGED <<pageVars, formDataVars, formCallVars, formVoiceVars, toastVars,
                 ghostVars, arVars, fixedVars, deviceVars>>

\* the Clear button: setAnswersText("")
ClearAnswers ==
  /\ FormMounted
  /\ ~(isRecording \/ isTranscribing \/ isClarifying)
  /\ answersText' = <<>>
  /\ lastOp' = "clearAnswers"
  /\ UNCHANGED <<pageVars, formDataVars, formCallVars, formVoiceVars, toastVars,
                 ghostVars, arVars, fixedVars, deviceVars>>

\* a timer of showToast fires: setToast(null)
ToastExpire ==
  /\ FormMounted
  /\ toastTimers > 0
  /\ toast' = None
  /\ toastTimers' = toastTimers - 1
  /\ lastOp' = "toastExpire"
  /\ UNCHANGED <<pageVars, formDataVars, answersText, formCallVars,
                 formVoiceVars, ghostVars, arVars, fixedVars, deviceVars>>
\* runClarification testing answersText without trim()
RunClarificationNoTrim ==
  /\ FormMounted
  /\ ~(isClarifying \/ isTranscribing \/ isRecording)
  /\ CanToast
  /\ IF answersText = <<>>
     THEN /\ ShowToast("err", <<"Type or record your answers first (one message is fine).">>)
          /\ lastOp' = "runClarification:empty"
          /\ UNCHANGED <<isClarifying, clar>>
     ELSE /\ isClarifying' = TRUE
          /\ clar' = Pending("clarify",
                       [draft |-> draft, answers_text |-> answersText,
                        questions |-> questions])
          /\ lastOp' = "runClarification"
          /\ UNCHANGED toastVars
  /\ UNCHANGED <<pageVars, formDataVars, answersText, isSubmitting, sub,
                 formVoiceVars, ghostVars, arVars, fixedVars, deviceVars>>

\* runClarification, from the Apply clarification button
RunClarification ==
  /\ FormMounted
  /\ ~(isClarifying \/ isTranscribing \/ isRecording)
  /\ CanToast
  /\ IF Trim(answersText) = <<>>
     THEN /\ ShowToast("err", <<"Type or record your answers first (one message is fine).">>)
          /\ lastOp' = "runClarification:empty"
          /\ UNCHANGED <<isClarifying, clar>>
     ELSE /\ isClarifying' = TRUE
          /\ clar' = Pending("clarify",
                       [draft |-> draft, answers_text |-> answersText,
                        questions |-> questions])
          /\ lastOp' = "runClarification"
          /\ UNCHANGED toastVars
  /\ UNCHANGED <<pageVars, formDataVars, answersText, isSubmitting, sub,
                 formVoiceVars, ghostVars, arVars, fixedVars, deviceVars>>

\* runClarification keeping the old questions when the response has none
ClarifyOkKeepsQuestions(res) ==
  /\ clar.pc = "clarify"
  /\ CanToast
  /\ draft' = res.draft
  /\ fieldMeta' = OrElse(res.field_meta, NoMeta)
  /\ missingFields' = OrElse(res.missing_fields, <<>>)
  /\ questions' = OrElse(res.questions, questions)
  /\ answersText' = <<>>
  /\ ShowToast("ok", <<"Updated with your clarification">>)
  /\ isClarifying' = FALSE
  /\ clar' = Idle
  /\ lastOp' = "clarifyOk"
  /\ UNCHANGED <<pageVars, edits, isSubmitting, sub, formVoiceVars,
                 ghostVars, arVars, fixedVars, deviceVars>>

\* runClarification resumes: clarifyIdea answered 2xx with body res
ClarifyOk(res) ==
  /\ clar.pc = "clarify"
  /\ CanToast
  /\ draft' = res.draft
  /\ fieldMeta' = OrElse(res.field_meta, NoMeta)
  /\ missingFields' = OrElse(res.missing_fields, <<>>)
  /\ questions' = OrElse(res.questions, <<>>)
  /\ answersText' = <<>>
  /\ ShowToast("ok", <<"Updated with your clarification">>)
  /\ isClarifying' = FALSE
  /\ clar' = Idle
  /\ lastOp' = "clarifyOk"
  /\ UNCHANGED <<pageVars, edits, isSubmitting, sub, formVoiceVars,
                 ghostVars, arVars, fixedVars, deviceVars>>

\* runClarification clearing the answer buffer in its catch as well
ClarifyFailClearsAnswers(f) ==
  /\ clar.pc = "clarify"
  /\ CanToast
  /\ ShowToast("err", MessageOr(HttpError(f), "Clarification failed."))
  /\ isClarifying' = FALSE
  /\ clar' = Idle
  /\ lastOp' = "clarifyFail"
  /\ answersText' = <<>>
  /\ UNCHANGED <<pageVars, formDataVars, isSubmitting, sub,
                 formVoiceVars, ghostVars, arVars, fixedVars, deviceVars>>

\* runClarification resumes: clarifyIdea threw
ClarifyFail(f) ==
  /\ clar.pc = "clarify"
  /\ CanToast
  /\ ShowToast("err", MessageOr(HttpError(f), "Clarification failed."))
  /\ isClarifying' = FALSE
  /\ clar' = Idle
  /\ lastOp' = "clarifyFail"
  /\ UNCHANGED <<pageVars, formDataVars, answersText, isSubmitting, sub,
                 formVoiceVars, ghostVars, arVars, fixedVars, deviceVars>>

\* runSubmit, from either Submit button
RunSubmit ==
  /\ FormMounted
  /\ ~isSubmitting
  /\ IF Len(stillMissing) > 0
     THEN /\ CanToast
          /\ ShowToast("err", <<"Missing required fields: ", MapLabel(stillMissing)>>)
          /\ lastOp' = "runSubmit:missing"
          /\ UNCHANGED <<isSubmitting, sub>>
     ELSE /\ isSubmitting' = TRUE
          /\ sub' = Pending("submit",
                      [transcript |-> transcriptText,
                       language |->
                         IF IsNull(transcribe) THEN None
                         ELSE Some(Val(transcribe).language),
                       dialect_hint |->
                         IF IsNull(transcribe) THEN None
                         ELSE Val(transcribe).dialect_hint,
                       draft |-> draft])
          /\ lastOp' = "runSubmit"
          /\ UNCHANGED toastVars
  /\ UNCHANGED <<pageVars, formDataVars, answersText, isClarifying, clar,
                 formVoiceVars, ghostVars, arVars, fixedVars, deviceVars>>

\* runSubmit reporting success without the id
SubmitOkNoId(id) ==
  /\ sub.pc = "submit"
  /\ CanToast
  /\ ShowToast("ok", <<"Submitted">>)
  /\ isSubmitting' = FALSE
  /\ sub' = Idle
  /\ lastOp' = "submitOk"
  /\ UNCHANGED <<pageVars, formDataVars, answersText, isClarifying, clar,
                 formVoiceVars, ghostVars, arVars, fixedVars, deviceVars>>

\* runSubmit resumes: submitIdea answered 2xx with {id, status}
SubmitOk(id) ==
  /\ sub.pc = "submit"
  /\ CanToast
  /\ ShowToast("ok", <<"Submitted (id: ", id, ")">>)
  /\ isSubmitting' = FALSE
  /\ sub' = Idle
  /\ lastOp' = "submitOk"
  /\ UNCHANGED <<pageVars, formDataVars, answersText, isClarifying, clar,
                 formVoiceVars, ghostVars, arVars, fixedVars, deviceVars>>

\* the submissions the record of unmounted forms holds
SubmitsInFlight == IF IsNull(subGhosts) THEN {} ELSE Val(subGhosts)

\* the submitIdea call of a form that has left the tree returns (2xx or
\* not): runSubmit resumes on setters of the unmounted component
SubGhostEnds(req) ==
  /\ req \in SubmitsInFlight
  /\ subGhosts' = Some(SubmitsInFlight \ {req})
  /\ lastOp' = "sub.ghostEnds"
  /\ UNCHANGED <<pageVars, formVars, fmGhostStarts, arVars, fixedVars,
                 deviceVars>>

\* runSubmit dropping the questions when the submission failed
SubmitFailDropsQuestions(f) ==
  /\ sub.pc = "submit"
  /\ CanToast
  /\ ShowToast("err", MessageOr(HttpError(f), "Submit failed."))
  /\ isSubmitting' = FALSE
  /\ sub' = Idle
  /\ questions' = <<>>
  /\ lastOp' = "submitFail"
  /\ UNCHANGED <<pageVars, draft, missingFields, fieldMeta, edits, answersText,
                 isClarifying, clar, formVoiceVars, ghostVars, arVars,
                 fixedVars, deviceVars>>

\* runSubmit resumes: submitIdea threw
SubmitFail(f) ==
  /\ sub.pc = "submit"
  /\ CanToast
  /\ ShowToast("err", MessageOr(HttpError(f), "Submit failed."))
  /\ isSubmitting' = FALSE
  /\ sub' = Idle
  /\ lastOp' = "submitFail"
  /\ UNCHANGED <<pageVars, formDataVars, answersText, isClarifying, clar,
                 formVoiceVars, ghostVars, arVars, fixedVars, deviceVars>>

\* -------------------------------------------------------------- the device
\* what getUserMedia rejects with: err.message may be empty
MicErrors == {<<"Permission denied">>, <<>>}

\* navigator.mediaDevices.getUserMedia resolves: the next stream is handed out
CanAcquire == nStreams < MaxStreams

NewStream == nStreams + 1

\* rec.mimeType of a recorder created with the encoding `requested`
RecMimeType(requested) == IF requested # "" THEN requested ELSE platform.default

\* stream.getTracks().forEach(t => t.stop()) on stream s (0: no stream)
Release(rel, s) == IF s = 0 THEN rel ELSE [rel EXCEPT ![s] = @ + 1]

\* acquired and not yet released
Live(s) == s <= nStreams /\ released[s] = 0

\* the recording of recorder r ends by itself: the device fails, or the
\* tracks of its stream have ended; the browser queues dataavailable and stop
RecEnds(r) ==
  /\ recs[r].state = "recording"
  /\ recs' = [recs EXCEPT ![r].state = "stopping"]
  /\ lastOp' = "recEnds"
  /\ UNCHANGED <<pageVars, formVars, ghostVars, arVars, fixedVars, nStreams,
                 released>>

\* ---------------------------------------------------------- AudioRecorder
Candidates ==
  <<"audio/webm;codecs=opus", "audio/webm", "audio/ogg;codecs=opus", "audio/ogg">>

RECURSIVE FirstSupported(_, _)
\* pickMimeType returning the last supported candidate
FirstSupportedLast(cs, types) ==
  LET S == {k \in 1..Len(cs) : cs[k] \in types}
  IN IF S = {} THEN "" ELSE cs[CHOOSE k \in S : \A j \in S : j <= k]

FirstSupported(cs, types) ==
  IF cs = <<>> THEN ""
  ELSE IF Head(cs) \in types THEN Head(cs) ELSE FirstSupported(Tail(cs), types)

\* typeof MediaRecorder !== "undefined" && MediaRecorder.isTypeSupported?.(c)
SupportedTypes == IF platform.recorder THEN platform.types ELSE {}

\* pickMimeType()
pickMimeType == FirstSupported(Candidates, SupportedTypes)

\* mimeType (useMemo)
mimeType == pickMimeType

\* t.includes("ogg"), for the encodings a recorder can report
IncludesOgg(t) == t \in {"audio/ogg;codecs=opus", "audio/ogg"}

\* rec.mimeType || "audio/webm"
BlobType(r) == IF recs[r].mimeType # "" THEN recs[r].mimeType ELSE "audio/webm"

\* onstop naming every file recording.webm
RecordedFileAlwaysWebm(r, chunks) ==
  [name |-> "recording.webm", type |-> BlobType(r), data |-> chunks]

\* the File rec.onstop hands to onRecordedFile
RecordedFile(r, chunks) ==
  [name |-> IF IncludesOgg(BlobType(r)) THEN "recording.ogg" ELSE "recording.webm",
   type |-> BlobType(r),
   data |-> chunks]

RECURSIVE SumTo(_, _)
SumTo(f, n) == IF n = 0 THEN 0 ELSE f[n] + SumTo(f, n - 1)

\* start() calls awaiting getUserMedia, over all instances
ArPendingTotal == SumTo(arStarts, MaxInst)

\* an instance that left the tree and has nothing left to do
InstFree(i) ==
  /\ i # arInst
  /\ arStarts[i] = 0
  /\ \A r \in Streams :
       ~(recs[r].owner = "ar" /\ recs[r].inst = i
         /\ recs[r].state \in {"recording", "stopping"})

\* {mode === "record" && <AudioRecorder .../>} when mode becomes m: the
\* instance leaves the tree (its refs, pending start() calls and recorders
\* live on), or a new instance is mounted
CanRemount(m) ==
  (mode # "record" /\ m = "record") => \E i \in Insts : InstFree(i)

ArRemount(m) ==
  IF mode = "record" /\ m # "record"
  THEN /\ arInst' = 0
       /\ arPermissionError' = None
       /\ arIsRecording' = FALSE
       /\ arSeconds' = 0
       /\ arAudioUrl' = None
       /\ UNCHANGED arRefVars
  ELSE IF mode # "record" /\ m = "record"
  THEN LET i == CHOOSE j \in Insts :
                  InstFree(j) /\ \A l \in Insts : InstFree(l) => j <= l
       IN /\ arInst' = i
          /\ arStreamRef' = [arStreamRef EXCEPT ![i] = 0]
          /\ arRecorderRef' = [arRecorderRef EXCEPT ![i] = 0]
          /\ arChunksRef' = [arChunksRef EXCEPT ![i] = <<>>]
          /\ arTimerRef' = [arTimerRef EXCEPT ![i] = FALSE]
          /\ UNCHANGED <<arStateVars, arStarts>>
  ELSE UNCHANGED arVars

\* supported: set to false by the effect that finds no window.MediaRecorder;
\* the Start button is rendered only when it is true
supported == platform.recorder

\* start(), from the Start button, up to `await getUserMedia`
ArStart ==
  /\ arInst # 0
  /\ supported
  /\ ~arIsRecording
  /\ ArPendingTotal < MaxPending
  /\ arPermissionError' = None
  /\ arAudioUrl' = None
  /\ arSeconds' = 0
  /\ arStarts' = [arStarts EXCEPT ![arInst] = @ + 1]
  /\ lastOp' = "ar.start"
  /\ UNCHANGED <<pageVars, formVars, ghostVars, arIsRecording, arInst,
                 arStreamRef, arRecorderRef, arChunksRef, arTimerRef, fixedVars,
                 deviceVars>>

\* setPermissionError of instance i: a setter of an unmounted instance is void
ArSetError(i, msg) ==
  arPermissionError' =
    IF i = arInst THEN Some(MessageOr(msg, "Microphone permission denied."))
    ELSE arPermissionError

\* start() with a catch block that swallows the error
ArDeniedSilent(i, msg) ==
  /\ arStarts[i] > 0
  /\ arStarts' = [arStarts EXCEPT ![i] = @ - 1]
  /\ lastOp' = "ar.denied"
  /\ UNCHANGED <<pageVars, formVars, ghostVars, arStateVars, arInst,
                 arStreamRef, arRecorderRef, arChunksRef, arTimerRef, fixedVars,
                 deviceVars>>

\* start() of instance i resumes: getUserMedia rejected with message msg
ArDenied(i, msg) ==
  /\ arStarts[i] > 0
  /\ arStarts' = [arStarts EXCEPT ![i] = @ - 1]
  /\ ArSetError(i, msg)
  /\ lastOp' = "ar.denied"
  /\ UNCHANGED <<pageVars, formVars, ghostVars, arIsRecording, arSeconds,
                 arAudioUrl, arInst, arStreamRef, arRecorderRef, arChunksRef,
                 arTimerRef, fixedVars, deviceVars>>

\* start() of instance i resumes: getUserMedia resolved with a new stream
ArGranted(i, outcome) ==
  /\ arStarts[i] > 0
  /\ CanAcquire
  /\ arStarts' = [arStarts EXCEPT ![i] = @ - 1]
  /\ nStreams' = NewStream
  /\ arStreamRef' = [arStreamRef EXCEPT ![i] = NewStream]
  /\ arChunksRef' = [arChunksRef EXCEPT ![i] = <<>>]
  /\ CASE outcome = "ctorThrows" ->
            /\ ArSetError(i, <<"NotSupportedError">>)
            /\ UNCHANGED <<recs, arRecorderRef, arIsRecording, arTimerRef>>
       [] outcome = "startThrows" ->
            /\ recs' = [recs EXCEPT ![NewStream] =
                          [state |-> "inactive", owner |-> "ar", inst |-> i,
                           mimeType |-> RecMimeType(mimeType)]]
            /\ arRecorderRef' = [arRecorderRef EXCEPT ![i] = NewStream]
            /\ ArSetError(i, <<"InvalidStateError">>)
            /\ UNCHANGED <<arIsRecording, arTimerRef>>
       [] OTHER ->
            /\ recs' = [recs EXCEPT ![NewStream] =
                          [state |-> "recording", owner |-> "ar", inst |-> i,
                           mimeType |-> RecMimeType(mimeType)]]
            /\ arRecorderRef' = [arRecorderRef EXCEPT ![i] = NewStream]
            /\ arIsRecording' = IF i = arInst THEN TRUE ELSE arIsRecording
            /\ arTimerRef' = [arTimerRef EXCEPT ![i] = TRUE]
            /\ UNCHANGED arPermissionError
  /\ lastOp' = "ar.granted"
  /\ UNCHANGED <<pageVars, formVars, ghostVars, arSeconds, arAudioUrl,
                 arInst, fixedVars, released>>

\* stop(), from the Stop button. recorderRef.current?.stop() throws on a
\* recorder that is not recording, and the assignment after it is skipped
ArStop ==
  /\ arInst # 0
  /\ arIsRecording
  /\ arTimerRef' = [arTimerRef EXCEPT ![arInst] = FALSE]
  /\ arIsRecording' = FALSE
  /\ LET r == arRecorderRef[arInst]
     IN IF r = 0
        THEN UNCHANGED <<recs, arRecorderRef>>
        ELSE IF recs[r].state = "recording"
        THEN /\ recs' = [recs EXCEPT ![r].state = "stopping"]
             /\ arRecorderRef' = [arRecorderRef EXCEPT ![arInst] = 0]
        ELSE UNCHANGED <<recs, arRecorderRef>>
  /\ lastOp' = "ar.stop"
  /\ UNCHANGED <<pageVars, formVars, ghostVars, arPermissionError, arSeconds,
                 arAudioUrl, arInst, arStreamRef, arChunksRef, arStarts, fixedVars,
                 nStreams, released>>

\* the interval of startTimer fires: setSeconds(s => s + 1)
ArTick ==
  /\ arInst # 0
  /\ arTimerRef[arInst]
  /\ arSeconds < MaxSeconds
  /\ arSeconds' = arSeconds + 1
  /\ lastOp' = "ar.tick"
  /\ UNCHANGED <<pageVars, formVars, ghostVars, arPermissionError,
                 arIsRecording, arAudioUrl, arInst, arRefVars, fixedVars,
                 deviceVars>>

\* recorder r of an AudioRecorder has stopped: rec.ondataavailable with the
\* recorded data (nonEmpty: e.data.size > 0), then rec.onstop, which calls
\* the Page's onRecordedFile and stops the tracks of streamRef.current
ArRecStopped(r, nonEmpty) ==
  /\ recs[r].owner = "ar"
  /\ recs[r].state = "stopping"
  /\ LET i == recs[r].inst
         chunks == IF nonEmpty THEN Append(arChunksRef[i], r) ELSE arChunksRef[i]
     IN /\ arChunksRef' = [arChunksRef EXCEPT ![i] = chunks]
        /\ arAudioUrl' = IF i = arInst THEN Some(chunks) ELSE arAudioUrl
        /\ audioFile' = Some(RecordedFile(r, chunks))
        /\ transcribe' = None
        /\ extraction' = None
        /\ error' = None
        /\ FormUnmount
        /\ released' = Release(released, arStreamRef[i])
        /\ arStreamRef' = [arStreamRef EXCEPT ![i] = 0]
  /\ procBefore' = None
  /\ recs' = GhostForm([recs EXCEPT ![r].state = "inactive"])
  /\ lastOp' = "ar.onstop"
  /\ UNCHANGED <<mode, manualText, busy, proc, arPermissionError, arIsRecording,
                 arSeconds, arInst, arRecorderRef, arTimerRef, arStarts, fixedVars,
                 nStreams>>

\* ------------------------------------------------- IdeaForm: voice answer
\* startRecording, from the Record button, up to `await getUserMedia`
StartRecording ==
  /\ FormMounted
  /\ ~isRecording
  /\ ~(isTranscribing \/ isClarifying)
  /\ fmStarts + fmGhostStarts < MaxPending
  /\ fmStarts' = fmStarts + 1
  /\ lastOp' = "startRecording"
  /\ UNCHANGED <<pageVars, formDataVars, answersText, formCallVars, isRecording,
                 isTranscribing, mediaRecorderRef, chunksRef, streamRef, voice,
                 toastVars, ghostVars, arVars, fixedVars, deviceVars>>

\* startRecording resumes: getUserMedia rejected with message msg
FmDenied(msg) ==
  /\ fmStarts > 0
  /\ CanToast
  /\ fmStarts' = fmStarts - 1
  /\ ShowToast("err", MessageOr(msg, "Could not access microphone."))
  /\ lastOp' = "fm.denied"
  /\ UNCHANGED <<pageVars, formDataVars, answersText, formCallVars, isRecording,
                 isTranscribing, mediaRecorderRef, chunksRef, streamRef, voice,
                 ghostVars, arVars, fixedVars, deviceVars>>

\* startRecording resumes: getUserMedia resolved with a new stream
FmGranted(outcome) ==
  /\ fmStarts > 0
  /\ CanAcquire
  /\ outcome # "ctorThrows" => platform.recorder
  /\ CanToast
  /\ fmStarts' = fmStarts - 1
  /\ nStreams' = NewStream
  /\ streamRef' = NewStream
  /\ CASE outcome = "ctorThrows" ->
            /\ ShowToast("err", <<"NotSupportedError">>)
            /\ UNCHANGED <<recs, mediaRecorderRef, chunksRef, isRecording>>
       [] outcome = "startThrows" ->
            /\ recs' = [recs EXCEPT ![NewStream] =
                          [state |-> "inactive", owner |-> "form", inst |-> 1,
                           mimeType |-> RecMimeType("")]]
            /\ mediaRecorderRef' = NewStream
            /\ chunksRef' = <<>>
            /\ ShowToast("err", <<"InvalidStateError">>)
            /\ UNCHANGED isRecording
       [] OTHER ->
            /\ recs' = [recs EXCEPT ![NewStream] =
                          [state |-> "recording", owner |-> "form", inst |-> 1,
                           mimeType |-> RecMimeType("")]]
            /\ mediaRecorderRef' = NewStream
            /\ chunksRef' = <<>>
            /\ isRecording' = TRUE
            /\ ShowToast("ok", <<"Recording started">>)
  /\ lastOp' = "fm.granted"
  /\ UNCHANGED <<pageVars, formDataVars, answersText, formCallVars,
                 isTranscribing, voice, ghostVars, arVars, fixedVars,
                 released>>

\* startRecording of an unmounted form resumes: getUserMedia rejected
FmGhostDenied ==
  /\ fmGhostStarts > 0
  /\ fmGhostStarts' = fmGhostStarts - 1
  /\ UNCHANGED subGhosts
  /\ lastOp' = "fm.ghostDenied"
  /\ UNCHANGED <<pageVars, formVars, arVars, fixedVars, deviceVars>>

\* startRecording of an unmounted form resumes: getUserMedia resolved
FmGhostGranted(outcome) ==
  /\ fmGhostStarts > 0
  /\ CanAcquire
  /\ outcome # "ctorThrows" => platform.recorder
  /\ fmGhostStarts' = fmGhostStarts - 1
  /\ UNCHANGED subGhosts
  /\ nStreams' = NewStream
  /\ recs' =
       IF outcome = "ctorThrows" THEN recs
       ELSE [recs EXCEPT ![NewStream] =
               [state |-> IF outcome = "ok" THEN "recording" ELSE "inactive",
                owner |-> "form", inst |-> 0, mimeType |-> RecMimeType("")]]
  /\ lastOp' = "fm.ghostGranted"
  /\ UNCHANGED <<pageVars, formVars, arVars, fixedVars, released>>

\* stopRecording, from the Stop button
StopRecording ==
  /\ FormMounted
  /\ isRecording
  /\ ~isTranscribing
  /\ CanToast
  /\ recs' =
       IF mediaRecorderRef # 0 /\ recs[mediaRecorderRef].state = "recording"
       THEN [recs EXCEPT ![mediaRecorderRef].state = "stopping"]
       ELSE recs
  /\ isRecording' = FALSE
  /\ ShowToast("ok", <<"Recording stopped. Transcribing...">>)
  /\ lastOp' = "stopRecording"
  /\ UNCHANGED <<pageVars, formDataVars, answersText, formCallVars,
                 isTranscribing, mediaRecorderRef, chunksRef, streamRef,
                 fmStarts, voice, ghostVars, arVars, fixedVars, nStreams,
                 released>>

\* recorder r of a form has stopped: recorder.ondataavailable with the
\* recorded data, then recorder.onstop, which stops the tracks of its own
\* stream and calls transcribeAndFill up to `await fetch`
FmRecStopped(r, nonEmpty) ==
  /\ recs[r].owner = "form"
  /\ recs[r].state = "stopping"
  /\ recs' = [recs EXCEPT ![r].state = "inactive"]
  /\ released' = Release(released, r)
  /\ IF recs[r].inst = 1
     THEN /\ streamRef' = 0
          /\ chunksRef' = <<>>
          /\ isTranscribing' = TRUE
          /\ voice' = Append(voice, IF nonEmpty THEN Append(chunksRef, r)
                                    ELSE chunksRef)
     ELSE UNCHANGED <<streamRef, chunksRef, isTranscribing, voice>>
  /\ lastOp' = "fm.onstop"
  /\ UNCHANGED <<pageVars, formDataVars, answersText, formCallVars, isRecording,
                 mediaRecorderRef, fmStarts, toastVars, ghostVars, arVars,
                 fixedVars, nStreams>>

\* setAnswersText(prev => ...) of transcribeAndFill
AddVoice(prev, text) ==
  IF Trim(prev) = <<>> THEN text
  ELSE Trim(prev) \o <<"\n", "\n", "[Voice]", "\n">> \o text

Remove(q, n) == SubSeq(q, 1, n - 1) \o SubSeq(q, n + 1, Len(q))
\* transcribeAndFill replacing the answer buffer by the transcript
VoiceOkOverwrites(n, data) ==
  /\ n \in 1..Len(voice)
  /\ CanToast
  /\ voice' = Remove(voice, n)
  /\ isTranscribing' = FALSE
  /\ LET text == Trim(data.transcript)
     IN IF text = <<>>
        THEN /\ ShowToast("err", <<"Transcription returned empty text.">>)
             /\ UNCHANGED answersText
        ELSE /\ answersText' = text
             /\ ShowToast("ok", <<"Voice added to answers">>)
  /\ lastOp' = "voiceOk"
  /\ UNCHANGED <<pageVars, formDataVars, formCallVars, isRecording,
                 mediaRecorderRef, chunksRef, streamRef, fmStarts,
                 ghostVars, arVars, fixedVars, deviceVars>>

\* transcribeAndFill of the n-th pending blob resumes: /v1/voice/transcribe
\* answered 2xx with data
VoiceOk(n, data) ==
  /\ n \in 1..Len(voice)
  /\ CanToast
  /\ voice' = Remove(voice, n)
  /\ isTranscribing' = FALSE
  /\ LET text == Trim(data.transcript)
     IN IF text = <<>>
        THEN /\ ShowToast("err", <<"Transcription returned empty text.">>)
             /\ UNCHANGED answersText
        ELSE /\ answersText' = AddVoice(answersText, text)
             /\ ShowToast("ok", <<"Voice added to answers">>)
  /\ lastOp' = "voiceOk"
  /\ UNCHANGED <<pageVars, formDataVars, formCallVars, isRecording,
                 mediaRecorderRef, chunksRef, streamRef, fmStarts,
                 ghostVars, arVars, fixedVars, deviceVars>>

\* the Error transcribeAndFill throws on a non-2xx answer, or fetch's own
VoiceError(f) ==
  IF f.kind = "http"
  THEN <<"Transcription failed (", f.status, "). ", f.text>>
  ELSE <<"Failed to fetch">>

\* transcribeAndFill without the finally that clears isTranscribing
VoiceFailStaysTranscribing(n, f) ==
  /\ n \in 1..Len(voice)
  /\ CanToast
  /\ voice' = Remove(voice, n)
  /\ isTranscribing' = isTranscribing
  /\ ShowToast("err", MessageOr(VoiceError(f), "Transcription failed."))
  /\ lastOp' = "voiceFail"
  /\ UNCHANGED <<pageVars, formDataVars, answersText, formCallVars, isRecording,
                 mediaRecorderRef, chunksRef, streamRef, fmStarts,
                 ghostVars, arVars, fixedVars, deviceVars>>

\* transcribeAndFill of the n-th pending blob resumes: the call failed
VoiceFail(n, f) ==
  /\ n \in 1..Len(voice)
  /\ CanToast
  /\ voice' = Remove(voice, n)
  /\ isTranscribing' = FALSE
  /\ ShowToast("err", MessageOr(VoiceError(f), "Transcription failed."))
  /\ lastOp' = "voiceFail"
  /\ UNCHANGED <<pageVars, formDataVars, answersText, formCallVars, isRecording,
                 mediaRecorderRef, chunksRef, streamRef, fmStarts,
                 ghostVars, arVars, fixedVars, deviceVars>>

\* ------------------------------------------------------------ Page again
\* setMode without setError(null)
SetModeKeepsError(m) ==
  /\ CanRemount(m)
  /\ mode' = m
  /\ audioFile' = None
  /\ transcribe' = None
  /\ extraction' = None
  /\ error' = error
  /\ FormUnmount
  /\ ArRemount(m)
  /\ recs' = GhostForm(recs)
  /\ procBefore' = None
  /\ lastOp' = "setMode"
  /\ UNCHANGED <<manualText, busy, proc, fixedVars, nStreams, released>>

\* setMode of the ModeSelector: any of the three cards, the active one too
SetMode(m) ==
  /\ CanRemount(m)
  /\ mode' = m
  /\ audioFile' = None
  /\ transcribe' = None
  /\ extraction' = None
  /\ error' = None
  /\ FormUnmount
  /\ ArRemount(m)
  /\ recs' = GhostForm(recs)
  /\ procBefore' = None
  /\ lastOp' = "setMode"
  /\ UNCHANGED <<manualText, busy, proc, fixedVars, nStreams, released>>

\* onChange of the file input: e.target.files?.[0] || null
PickFile(f) ==
  /\ mode = "upload"
  /\ audioFile' = f
  /\ transcribe' = None
  /\ extraction' = None
  /\ error' = None
  /\ FormUnmount
  /\ recs' = GhostForm(recs)
  /\ procBefore' = None
  /\ lastOp' = "pickFile"
  /\ UNCHANGED <<mode, manualText, busy, proc, arVars, fixedVars, nStreams,
                 released>>

\* onChange of the manual text area
TypeText(v) ==
  /\ mode = "text"
  /\ manualText' = v
  /\ transcribe' = None
  /\ extraction' = None
  /\ error' = None
  /\ FormUnmount
  /\ recs' = GhostForm(recs)
  /\ procBefore' = None
  /\ lastOp' = "typeText"
  /\ UNCHANGED <<mode, audioFile, busy, proc, arVars, fixedVars, nStreams,
                 released>>

\* what the Page shows: the selected audio, the transcript, the extraction
\* result and the draft of the form
Shown ==
  Some([audioFile |-> audioFile, transcript |-> transcriptText,
        extraction |-> extraction, draft |-> draft])

\* runProcess testing manualText without the trim
RunProcessNoTrim ==
  /\ ~busy
  /\ extraction' = None
  /\ FormUnmount
  /\ recs' = GhostForm(recs)
  /\ IF mode = "text"
     THEN IF manualText = <<>>
          THEN /\ error' = Some(<<"Please paste/type your idea text first.">>)
               /\ busy' = FALSE
               /\ proc' = Idle
               /\ procBefore' = None
               /\ lastOp' = "runProcess:empty"
          ELSE /\ error' = None
               /\ busy' = TRUE
               /\ proc' = Pending("extract",
                            [text |-> Trim(manualText),
                             language_hint |-> Some("unknown"),
                             dialect_hint |-> None])
               /\ procBefore' = Shown
               /\ lastOp' = "runProcess"
     ELSE IF IsNull(audioFile)
          THEN /\ error' = Some(<<"Please record or upload an audio file first.">>)
               /\ busy' = FALSE
               /\ proc' = Idle
               /\ procBefore' = None
               /\ lastOp' = "runProcess:empty"
          ELSE /\ error' = None
               /\ busy' = TRUE
               /\ proc' = Pending("transcribe", Val(audioFile))
               /\ procBefore' = Shown
               /\ lastOp' = "runProcess"
  /\ UNCHANGED <<mode, audioFile, manualText, transcribe, arVars, fixedVars,
                 nStreams, released>>

\* runProcess, from the Process button, up to its first await, or through
\* catch and finally when the input is missing
RunProcess ==
  /\ ~busy
  /\ extraction' = None
  /\ FormUnmount
  /\ recs' = GhostForm(recs)
  /\ IF mode = "text"
     THEN IF Trim(manualText) = <<>>
          THEN /\ error' = Some(<<"Please paste/type your idea text first.">>)
               /\ busy' = FALSE
               /\ proc' = Idle
               /\ procBefore' = None
               /\ lastOp' = "runProcess:empty"
          ELSE /\ error' = None
               /\ busy' = TRUE
               /\ proc' = Pending("extract",
                            [text |-> Trim(manualText),
                             language_hint |-> Some("unknown"),
                             dialect_hint |-> None])
               /\ procBefore' = Shown
               /\ lastOp' = "runProcess"
     ELSE IF IsNull(audioFile)
          THEN /\ error' = Some(<<"Please record or upload an audio file first.">>)
               /\ busy' = FALSE
               /\ proc' = Idle
               /\ procBefore' = None
               /\ lastOp' = "runProcess:empty"
          ELSE /\ error' = None
               /\ busy' = TRUE
               /\ proc' = Pending("transcribe", Val(audioFile))
               /\ procBefore' = Shown
               /\ lastOp' = "runProcess"
  /\ UNCHANGED <<mode, audioFile, manualText, transcribe, arVars, fixedVars,
                 nStreams, released>>

\* runProcess sending the trimmed transcript to extractIdea
TranscribeOkTrims(t) ==
  /\ proc.pc = "transcribe"
  /\ transcribe' = Some(t)
  /\ IF Trim(t.transcript) = <<>>
     THEN /\ error' = Some(<<"Transcript is empty.">>)
          /\ busy' = FALSE
          /\ proc' = Idle
          /\ procBefore' = None
          /\ lastOp' = "transcribeOk:empty"
     ELSE /\ proc' = Pending("extract",
                       [text |-> Trim(t.transcript),
                        language_hint |-> Some(t.language),
                        dialect_hint |-> t.dialect_hint])
          /\ lastOp' = "transcribeOk"
          /\ UNCHANGED <<error, busy, procBefore>>
  /\ UNCHANGED <<mode, audioFile, manualText, extraction, formVars,
                 ghostVars, arVars, fixedVars, deviceVars>>

\* runProcess resumes: transcribeAudio answered 2xx with body t
TranscribeOk(t) ==
  /\ proc.pc = "transcribe"
  /\ transcribe' = Some(t)
  /\ IF Trim(t.transcript) = <<>>
     THEN /\ error' = Some(<<"Transcript is empty.">>)
          /\ busy' = FALSE
          /\ proc' = Idle
          /\ procBefore' = None
          /\ lastOp' = "transcribeOk:empty"
     ELSE /\ proc' = Pending("extract",
                       [text |-> t.transcript,
                        language_hint |-> Some(t.language),
                        dialect_hint |-> t.dialect_hint])
          /\ lastOp' = "transcribeOk"
          /\ UNCHANGED <<error, busy, procBefore>>
  /\ UNCHANGED <<mode, audioFile, manualText, extraction, formVars,
                 ghostVars, arVars, fixedVars, deviceVars>>

\* runProcess sending the transcribe request again when it failed
ProcessFailRetries(f) ==
  /\ proc.pc \in {"transcribe", "extract"}
  /\ error' = Some(MessageOr(HttpError(f), "Something went wrong."))
  /\ busy' = (proc.pc = "transcribe")
  /\ proc' = IF proc.pc = "transcribe" THEN proc ELSE Idle
  /\ procBefore' = None
  /\ lastOp' = IF proc.pc = "transcribe" THEN "transcribeFail" ELSE "extractFail"
  /\ UNCHANGED <<mode, audioFile, manualText, transcribe, extraction, formVars,
                 ghostVars, arVars, fixedVars, deviceVars>>

\* runProcess resumes: transcribeAudio or extractIdea threw
ProcessFail(f) ==
  /\ proc.pc \in {"transcribe", "extract"}
  /\ error' = Some(MessageOr(HttpError(f), "Something went wrong."))
  /\ busy' = FALSE
  /\ proc' = Idle
  /\ procBefore' = None
  /\ lastOp' = IF proc.pc = "transcribe" THEN "transcribeFail" ELSE "extractFail"
  /\ UNCHANGED <<mode, audioFile, manualText, transcribe, extraction, formVars,
                 ghostVars, arVars, fixedVars, deviceVars>>

\* runProcess going back to record mode after a successful extraction
ExtractOkResetsMode(ex) ==
  /\ proc.pc = "extract"
  /\ extraction' = Some(ex)
  /\ FormMount(ex)
  /\ busy' = FALSE
  /\ proc' = Idle
  /\ procBefore' = None
  /\ lastOp' = "extractOk"
  /\ mode' = "record"
  /\ UNCHANGED <<audioFile, manualText, transcribe, error, arVars, fixedVars,
                 deviceVars>>

\* runProcess resumes: extractIdea answered 2xx with body ex; the form is
\* mounted on it
ExtractOk(ex) ==
  /\ proc.pc = "extract"
  /\ extraction' = Some(ex)
  /\ FormMount(ex)
  /\ busy' = FALSE
  /\ proc' = Idle
  /\ procBefore' = None
  /\ lastOp' = "extractOk"
  /\ UNCHANGED <<mode, audioFile, manualText, transcribe, error, arVars, fixedVars,
                 deviceVars>>

\* ---------------------------------------------------------- specifications
\* the browser of the specifications that leave the microphone alone
ChromeLike ==
  [recorder |-> TRUE, types |-> {"audio/webm;codecs=opus", "audio/webm"},
   default |-> "audio/webm;codecs=opus"]

\* the state after construction, on platform p; g: the record of the
\* submissions of unmounted forms (null: not followed); cap: the toast
\* timers that may be pending at once
InitWith(p, g, cap) ==
  /\ mode = "record"
  /\ audioFile = None
  /\ manualText = <<>>
  /\ transcribe = None
  /\ extraction = None
  /\ busy = FALSE
  /\ error = None
  /\ proc = Idle
  /\ draft = NoDraft
  /\ questions = <<>>
  /\ missingFields = <<>>
  /\ fieldMeta = NoMeta
  /\ answersText = <<>>
  /\ isClarifying = FALSE
  /\ isSubmitting = FALSE
  /\ isRecording = FALSE
  /\ isTranscribing = FALSE
  /\ toast = None
  /\ mediaRecorderRef = 0
  /\ chunksRef = <<>>
  /\ streamRef = 0
  /\ clar = Idle
  /\ sub = Idle
  /\ toastTimers = 0
  /\ edits = 0
  /\ fmStarts = 0
  /\ fmGhostStarts = 0
  /\ subGhosts = g
  /\ voice = <<>>
  /\ arPermissionError = None
  /\ arIsRecording = FALSE
  /\ arSeconds = 0
  /\ arAudioUrl = None
  /\ arInst = 1
  /\ arStreamRef = [i \in Insts |-> 0]
  /\ arRecorderRef = [i \in Insts |-> 0]
  /\ arChunksRef = [i \in Insts |-> <<>>]
  /\ arTimerRef = [i \in Insts |-> FALSE]
  /\ arStarts = [i \in Insts |-> 0]
  /\ platform = p
  /\ timerCap = cap
  /\ nStreams = 0
  /\ released = [s \in Streams |-> 0]
  /\ recs = [s \in Streams |-> NoRec]
  /\ lastOp = "init"
  /\ procBefore = None

InitOn(p) == InitWith(p, None, MaxTimers)

PageNext ==
  \/ \E m \in InputModes : SetMode(m)
  \/ \E f \in {None} \cup {Some(u) : u \in UploadFiles} : PickFile(f)
  \/ \E v \in TypedTexts : TypeText(v)
  \/ RunProcess
  \/ \E t \in TranscribeResponses : TranscribeOk(t)
  \/ \E f \in Failures : ProcessFail(f)
  \/ \E ex \in Responses : ExtractOk(ex)

\* the user edits one of the fields `keys`
EditNext(keys) == \E k \in keys : \E v \in EditValues(k) : UpdateField(k, v)

FormCallNext ==
  \/ \E v \in TypedTexts : SetAnswersText(v)
  \/ ClearAnswers
  \/ ToastExpire
  \/ RunClarification
  \/ \E res \in Responses : ClarifyOk(res)
  \/ \E f \in Failures : ClarifyFail(f)
  \/ RunSubmit
  \/ \E id \in Ids : SubmitOk(id)
  \/ \E f \in Failures : SubmitFail(f)

\* the AudioRecorder and its recorders
RecNext ==
  \/ ArStart
  \/ \E i \in Insts : \E msg \in MicErrors : ArDenied(i, msg)
  \/ \E i \in Insts : \E o \in Outcomes : ArGranted(i, o)
  \/ ArStop
  \/ \E r \in Streams : \E b \in BOOLEAN : ArRecStopped(r, b)
  \/ \E r \in Streams : RecEnds(r)

\* the voice answer of the form and its recorders
VoiceNext ==
  \/ StartRecording
  \/ \E msg \in MicErrors : FmDenied(msg)
  \/ \E o \in Outcomes : FmGranted(o)
  \/ FmGhostDenied
  \/ \E o \in Outcomes : FmGhostGranted(o)
  \/ StopRecording
  \/ \E r \in Streams : \E b \in BOOLEAN : FmRecStopped(r, b)
  \/ \E r \in Streams : RecEnds(r)
  \/ \E n \in 1..MaxStreams : \E t \in TranscribeResponses : VoiceOk(n, t)
  \/ \E n \in 1..MaxStreams : \E f \in Failures : VoiceFail(n, f)

Init == InitOn(ChromeLike)

\* the calls of the form, on a draft whose title the user may edit
FormNext == EditNext({"title"}) \/ FormCallNext

\* the user edits any field and submits
EditSubmitNext ==
  \/ EditNext(EditableKeys)
  \/ RunSubmit
  \/ \E id \in Ids : SubmitOk(id)
  \/ \E f \in Failures : SubmitFail(f)
  \/ ToastExpire

\* the Page and the calls of the form together
Next == PageNext \/ FormCallNext

Spec == Init /\ [][Next]_vars

\* the draft form alone: the Page has just mounted it on an extraction of
\* the typed text
FormInitOn(ex) ==
  /\ mode = "text"
  /\ audioFile = None
  /\ manualText = <<" ", "a">>
  /\ transcribe = None
  /\ extraction = Some(ex)
  /\ busy = FALSE
  /\ error = None
  /\ proc = Idle
  /\ draft = ex.draft
  /\ questions = OrElse(ex.questions, <<>>)
  /\ missingFields = OrElse(ex.missing_fields, <<>>)
  /\ fieldMeta = OrElse(ex.field_meta, NoMeta)
  /\ answersText = <<>>
  /\ isClarifying = FALSE
  /\ isSubmitting = FALSE
  /\ isRecording = FALSE
  /\ isTranscribing = FALSE
  /\ toast = None
  /\ mediaRecorderRef = 0
  /\ chunksRef = <<>>
  /\ streamRef = 0
  /\ clar = Idle
  /\ sub = Idle
  /\ toastTimers = 0
  /\ edits = 0
  /\ fmStarts = 0
  /\ fmGhostStarts = 0
  /\ subGhosts = None
  /\ voice = <<>>
  /\ arPermissionError = None
  /\ arIsRecording = FALSE
  /\ arSeconds = 0
  /\ arAudioUrl = None
  /\ arInst = 0
  /\ arStreamRef = [i \in Insts |-> 0]
  /\ arRecorderRef = [i \in Insts |-> 0]
  /\ arChunksRef = [i \in Insts |-> <<>>]
  /\ arTimerRef = [i \in Insts |-> FALSE]
  /\ arStarts = [i \in Insts |-> 0]
  /\ platform = ChromeLike
  /\ timerCap = MaxTimers
  /\ nStreams = 0
  /\ released = [s \in Streams |-> 0]
  /\ recs = [s \in Streams |-> NoRec]
  /\ lastOp = "extractOk"
  /\ procBefore = None

FormInit == \E ex \in Responses : FormInitOn(ex)

SpecForm == FormInit /\ [][FormNext]_vars

SpecEdit == FormInit /\ [][EditSubmitNext]_vars

SpecPage == Init /\ [][PageNext]_vars

\* a first recording on platform p is done and processed: its file (chunk
\* 0) is selected and the form is mounted on the extraction. Its stream was
\* released and its recorder is inactive: neither is counted among Streams
RecordedInit(p) ==
  LET mime1 == IF FirstSupported(Candidates, p.types) # ""
               THEN FirstSupported(Candidates, p.types) ELSE p.default
      type1 == IF mime1 # "" THEN mime1 ELSE "audio/webm"
      t == [transcript |-> <<" ", "t">>, language |-> "ar",
            dialect_hint |-> Some("emirati")]
      ex == RespTitleEmpty
  IN /\ mode = "record"
     /\ audioFile =
          Some([name |-> IF IncludesOgg(type1) THEN "recording.ogg"
                         ELSE "recording.webm",
                type |-> type1, data |-> <<0>>])
     /\ manualText = <<>>
     /\ transcribe = Some(t)
     /\ extraction = Some(ex)
     /\ busy = FALSE
     /\ error = None
     /\ proc = Idle
     /\ draft = ex.draft
     /\ questions = OrElse(ex.questions, <<>>)
     /\ missingFields = OrElse(ex.missing_fields, <<>>)
     /\ fieldMeta = OrElse(ex.field_meta, NoMeta)
     /\ answersText = <<>>
     /\ isClarifying = FALSE
     /\ isSubmitting = FALSE
     /\ isRecording = FALSE
     /\ isTranscribing = FALSE
     /\ toast = None
     /\ mediaRecorderRef = 0
     /\ chunksRef = <<>>
     /\ streamRef = 0
     /\ clar = Idle
     /\ sub = Idle
     /\ toastTimers = 0
     /\ edits = 0
     /\ fmStarts = 0
     /\ fmGhostStarts = 0
     /\ subGhosts = None
     /\ voice = <<>>
     /\ arPermissionError = None
     /\ arIsRecording = FALSE
     /\ arSeconds = 0
     /\ arAudioUrl = Some(<<0>>)
     /\ arInst = 1
     /\ arStreamRef = [i \in Insts |-> 0]
     /\ arRecorderRef = [i \in Insts |-> 0]
     /\ arChunksRef = [i \in Insts |-> IF i = 1 THEN <<0>> ELSE <<>>]
     /\ arTimerRef = [i \in Insts |-> FALSE]
     /\ arStarts = [i \in Insts |-> 0]
     /\ platform = p
     /\ timerCap = MaxTimers
     /\ nStreams = 0
     /\ released = [s \in Streams |-> 0]
     /\ recs = [s \in Streams |-> NoRec]
     /\ lastOp = "extractOk"
     /\ procBefore = None

\* the AudioRecorder alone, on every platform; the user also leaves and
\* re-enters record mode
SpecRec ==
  /\ \E p \in Platforms : InitOn(p)
  /\ [][RecNext \/ \E m \in {"record", "text"} : SetMode(m)]_vars

\* the AudioRecorder while it stays mounted, on every platform
SpecRecMounted ==
  /\ \E p \in Platforms : InitOn(p)
  /\ [][RecNext]_vars

\* both users of the microphone: the AudioRecorder of record mode and the
\* voice answer of the form
MicInit == InitOn(ChromeLike) \/ RecordedInit(ChromeLike)

SpecMic ==
  /\ MicInit
  /\ [][RecNext \/ VoiceNext \/ ToastExpire
        \/ \E m \in {"record", "text"} : SetMode(m)]_vars

\* every browser the preference list can meet: any subset of the candidates
\* is supported, and a recorder created without an encoding reports one the
\* browser supports, a container outside the list, or nothing; or there is
\* no MediaRecorder at all
CandidateSet == {Candidates[k] : k \in 1..Len(Candidates)}

Browsers ==
  {p \in [recorder : {TRUE}, types : SUBSET CandidateSet,
          default : CandidateSet \cup {"", "audio/mp4"}] :
     p.default \in p.types \cup {"", "audio/mp4"}}
  \cup {[recorder |-> FALSE, types |-> {}, default |-> ""]}

\* the first recording after the page has loaded, on every browser
FirstSessionNext ==
  \/ (nStreams = 0 /\ ArPendingTotal = 0 /\ ArStart)
  \/ \E msg \in MicErrors : ArDenied(1, msg)
  \/ ArGranted(1, "ok")
  \/ ArStop
  \/ \E b \in BOOLEAN : ArRecStopped(1, b)

SpecPick ==
  /\ \E p \in Browsers : InitOn(p)
  /\ [][FirstSessionNext]_vars

\* no remote call is pending and no voice answer is being recorded
NoCallPending ==
  /\ proc = Idle /\ clar = Idle /\ sub = Idle
  /\ voice = <<>> /\ fmStarts = 0 /\ ~isRecording
  /\ ArPendingTotal = 0
  /\ \A r \in Streams : recs[r].state \notin {"recording", "stopping"}

\* every remote call of the program and every request for the microphone
\* that is denied, made by a user who uploads a file and waits for the answer
\* of one call before triggering the next
CallsNext ==
  \/ SetMode("upload")
  \/ PickFile(Some(CHOOSE u \in UploadFiles : u.name = "a.mp3"))
  \/ (NoCallPending /\ RunProcess)
  \/ \E t \in TranscribeResponses : TranscribeOk(t)
  \/ \E f \in Failures : ProcessFail(f)
  \/ \E ex \in {RespFull, RespTitleEmpty} : ExtractOk(ex)
  \/ SetAnswersText(<<" ", "a">>)
  \/ ToastExpire
  \/ (NoCallPending /\ RunClarification)
  \/ ClarifyOk(RespFull)
  \/ \E f \in Failures : ClarifyFail(f)
  \/ (NoCallPending /\ RunSubmit)
  \/ \E id \in Ids : SubmitOk(id)
  \/ \E f \in Failures : SubmitFail(f)
  \/ (NoCallPending /\ ArStart)
  \/ \E i \in Insts : \E msg \in MicErrors : ArDenied(i, msg)
  \/ (NoCallPending /\ StartRecording)
  \/ \E msg \in MicErrors : FmDenied(msg)
  \/ FmGranted("ok")
  \/ StopRecording
  \/ \E r \in Streams : FmRecStopped(r, TRUE)
  \/ \E n \in 1..MaxStreams : \E t \in TranscribeResponses : VoiceOk(n, t)
  \/ \E n \in 1..MaxStreams : \E f \in Failures : VoiceFail(n, f)

SpecCalls == Init /\ [][CallsNext]_vars

\* everything the mounted form does, on a draft without title: field edits,
\* clarification, submission and the voice answer, by a user who waits for
\* the answer of one call before triggering the next
FrameNext ==
  \/ EditNext({"title"})
  \/ SetAnswersText(<<" ", "a">>)
  \/ ToastExpire
  \/ (NoCallPending /\ RunClarification)
  \/ ClarifyOk(RespFull)
  \/ \E f \in Failures : ClarifyFail(f)
  \/ (NoCallPending /\ RunSubmit)
  \/ \E id \in Ids : SubmitOk(id)
  \/ \E f \in Failures : SubmitFail(f)
  \/ (NoCallPending /\ StartRecording)
  \/ \E msg \in MicErrors : FmDenied(msg)
  \/ \E o \in Outcomes : FmGranted(o)
  \/ StopRecording
  \/ \E r \in Streams : \E b \in BOOLEAN : FmRecStopped(r, b)
  \/ \E n \in 1..MaxStreams : \E t \in TranscribeResponses : VoiceOk(n, t)
  \/ \E n \in 1..MaxStreams : \E f \in Failures : VoiceFail(n, f)

SpecFrame == FormInitOn(RespTitleEmpty) /\ [][FrameNext]_vars

\* the answer buffer of the mounted form: typing, clarification and the
\* voice answer, triggered whenever their buttons are enabled
AnswerNext ==
  \/ \E v \in TypedTexts : SetAnswersText(v)
  \/ ClearAnswers
  \/ ToastExpire
  \/ RunClarification
  \/ ClarifyOk(RespFull)
  \/ \E f \in Failures : ClarifyFail(f)
  \/ StartRecording
  \/ \E msg \in MicErrors : FmDenied(msg)
  \/ \E o \in Outcomes : FmGranted(o)
  \/ StopRecording
  \/ \E r \in Streams : \E b \in BOOLEAN : FmRecStopped(r, b)
  \/ \E n \in 1..MaxStreams : \E t \in TranscribeResponses : VoiceOk(n, t)
  \/ \E n \in 1..MaxStreams : \E f \in Failures : VoiceFail(n, f)

SpecAnswer == FormInitOn(RespTitleEmpty) /\ [][AnswerNext]_vars

\* Process runs on typed text and the submissions of the forms they mount,
\* also of the forms that have left the tree
SubmitsNext ==
  \/ SetMode("text")
  \/ \E v \in TypedTexts : TypeText(v)
  \/ RunProcess
  \/ \E f \in Failures : ProcessFail(f)
  \/ \E ex \in {RespFull, RespTitleEmpty} : ExtractOk(ex)
  \/ ToastExpire
  \/ RunSubmit
  \/ \E id \in Ids : SubmitOk(id)
  \/ \E f \in Failures : SubmitFail(f)
  \/ \E req \in SubmitsInFlight : SubGhostEnds(req)

SpecSubmits ==
  InitWith(ChromeLike, Some({}), MaxTimers) /\ [][SubmitsNext]_vars

\* the call awaited by runProcess, runClarification, runSubmit or
\* transcribeAndFill returns (2xx) or fails
ProcessReturns ==
  \/ \E t \in TranscribeResponses : TranscribeOk(t)
  \/ \E f \in Failures : ProcessFail(f)
  \/ \E ex \in {RespFull, RespTitleEmpty} : ExtractOk(ex)

ClarifyReturns == ClarifyOk(RespFull) \/ \E f \in Failures : ClarifyFail(f)

SubmitReturns ==
  (\E id \in Ids : SubmitOk(id)) \/ (\E f \in Failures : SubmitFail(f))

VoiceReturns ==
  \/ \E n \in 1..MaxStreams : \E t \in TranscribeResponses : VoiceOk(n, t)
  \/ \E n \in 1..MaxStreams : \E f \in Failures : VoiceFail(n, f)

\* SpecCalls where every awaited call returns or fails in the end and every
\* timer set by showToast fires
SpecCallsReturn ==
  /\ SpecCalls
  /\ WF_vars(ToastExpire)
  /\ SF_vars(ProcessReturns)
  /\ SF_vars(ClarifyReturns)
  /\ SF_vars(SubmitReturns)
  /\ SF_vars(VoiceReturns)

\* the notifications of the form shown in succession, by Apply clarification
\* and Submit and by the calls they await, and their timers
ToastNext ==
  \/ SetMode("text")
  \/ \E v \in TypedTexts : TypeText(v)
  \/ RunProcess
  \/ \E f \in Failures : ProcessFail(f)
  \/ ExtractOk(RespTitleEmpty)
  \/ \E v \in TypedTexts : SetAnswersText(v)
  \/ RunClarification
  \/ ClarifyOk(RespFull)
  \/ \E f \in Failures : ClarifyFail(f)
  \/ RunSubmit
  \/ \E id \in Ids : SubmitOk(id)
  \/ \E f \in Failures : SubmitFail(f)
  \/ ToastExpire

SpecToasts ==
  InitWith(ChromeLike, None, MaxTimers + 1) /\ [][ToastNext]_vars

\* the whole program
SpecAll ==
  /\ \E p \in Platforms : InitOn(p)
  /\ [][PageNext \/ EditNext(EditableKeys) \/ FormCallNext \/ RecNext
        \/ VoiceNext \/ ArTick]_vars

\* ------------------------------------------------------------------ claims
\* every start() has returned and every recorder has delivered its onstop
ArSettled ==
  /\ \A i \in Insts : arStarts[i] = 0
  /\ \A r \in Streams : recs[r].state \notin {"recording", "stopping"}

\* C1: every device stream acquired by a start() of the AudioRecorder is
\* released exactly once: its tracks are never stopped twice, and once every
\* start() has returned and every recorder has stopped, no acquired stream
\* is left unreleased
C1_ReleasedExactlyOnce ==
  /\ \A s \in Streams : released[s] <= 1
  /\ ArSettled => \A s \in 1..nStreams : released[s] = 1

\* C2: at most one microphone stream is acquired and not yet released,
\* counting the streams of the AudioRecorder and of the form's voice answer
C2_AtMostOneLiveStream == Cardinality({s \in Streams : Live(s)}) <= 1

\* C3 as stated: after every switch of the input mode audioFile, transcribe,
\* extraction and error are null and the transcript shown is empty
C3_SwitchClearsAll ==
  [][\A m \in InputModes :
       SetMode(m) =>
         /\ IsNull(audioFile') /\ IsNull(transcribe')
         /\ IsNull(extraction') /\ IsNull(error')
         /\ transcriptText' = <<>>]_vars

\* C3 as amended: after every switch of the input mode audioFile, transcribe,
\* extraction and error are null; the transcript shown is empty in record and
\* upload mode, and in text mode it is the typed text, trimmed, which the
\* switch leaves as it was
C3_SwitchClearsDerived ==
  [][\A m \in InputModes :
       SetMode(m) =>
         /\ mode' = m
         /\ IsNull(audioFile') /\ IsNull(transcribe')
         /\ IsNull(extraction') /\ IsNull(error')
         /\ ~FormMounted'
         /\ manualText' = manualText
         /\ transcriptText' = IF m = "text" THEN Trim(manualText) ELSE <<>>]_vars

\* the mode was just switched to text and the text typed earlier is shown
C3_Witness ==
  /\ lastOp = "setMode"
  /\ mode = "text"
  /\ transcriptText = <<"a">>
  /\ IsNull(extraction) /\ IsNull(error)

\* empty, for a field of the draft: absent, or nothing but white space
Blank(v) == v = Nul \/ \A i \in 1..Len(v) : v[i] = " "

\* the labels the form shows for the required fields
RequiredLabels ==
  [title |-> <<"T", "i", "t", "l", "e">>,
   summary |-> <<"S", "u", "m", "m", "a", "r", "y">>,
   problem |-> <<"P", "r", "o", "b", "l", "e", "m">>,
   proposed_solution |-> <<"P", "r", "o", "p", "o", "s", "e", "d", " ",
                           "S", "o", "l", "u", "t", "i", "o", "n">>,
   target_audience |-> <<"T", "a", "r", "g", "e", "t", " ",
                         "A", "u", "d", "i", "e", "n", "c", "e">>,
   expected_impact |-> <<"E", "x", "p", "e", "c", "t", "e", "d", " ",
                         "I", "m", "p", "a", "c", "t">>]

\* the labels of the blank required fields of draft d, in required order
BlankLabels(d) ==
  LET blank == SelectSeq(<<"title", "summary", "problem", "proposed_solution",
                           "target_audience", "expected_impact">>,
                         LAMBDA k : Blank(d[k]))
  IN [i \in 1..Len(blank) |-> RequiredLabels[blank[i]]]

\* C4: runSubmit with a required field empty sends no request, leaves
\* isSubmitting false, and its error toast lists the labels of exactly the
\* empty required fields, in required order
C4_SubmitBlockedListsMissing ==
  [][(RunSubmit /\ \E k \in RequiredSet : Blank(draft[k])) =>
       /\ sub' = Idle
       /\ ~isSubmitting'
       /\ toast' = Some([type |-> "err",
                         text |-> <<"Missing required fields: ",
                                    BlankLabels(draft)>>])]_vars

\* runSubmit was just blocked on a draft whose summary is white space and
\* whose problem is absent, with title and expected impact filled in
C4_Witness ==
  /\ lastOp = "runSubmit:missing"
  /\ draft.summary = <<" ">> /\ draft.problem = Nul
  /\ ~Blank(draft.title) /\ ~Blank(draft.expected_impact)
  /\ sub = Idle /\ ~isSubmitting
  /\ ~IsNull(toast) /\ Val(toast).type = "err"

\* the required fields of draft d that are not empty
Filled(d) == {k \in RequiredSet : ~Blank(d[k])}

\* 100 k / 6 rounded to the nearest integer, for k = 0..6
SixthsPercent == <<0, 17, 33, 50, 67, 83, 100>>

\* C5: while the form is mounted, completeness is 100 k / 6 rounded to the
\* nearest integer, k being the number of required fields that are not
\* empty; with only the title empty it is 83 and the missing list is Title
C5_CompletenessIsRoundedSixths ==
  FormMounted =>
    /\ completeness = SixthsPercent[Cardinality(Filled(draft)) + 1]
    /\ Filled(draft) = RequiredSet \ {"title"} =>
         /\ completeness = 83
         /\ MapLabel(stillMissing) = <<RequiredLabels.title>>

\* a draft with four required fields filled in (67 percent), after an edit
C5_Witness ==
  /\ FormMounted
  /\ lastOp = "updateField"
  /\ Cardinality(Filled(draft)) = 4
  /\ completeness = 67

\* C6: updateField on any field, whatever its status was, sets the field to
\* the new value and its status to confirmed with confidence 1, and leaves
\* the value and the status of every other field as they were
C6_EditConfirmsField ==
  [][\A k \in EditableKeys : \A v \in EditValues(k) :
       UpdateField(k, v) =>
         /\ draft'[k] = v
         /\ fieldMeta'[k] = Some([status |-> "confirmed", confidence |-> 100])
         /\ \A j \in DraftKeys \ {k} :
              draft'[j] = draft[j] /\ fieldMeta'[j] = fieldMeta[j]]_vars

\* a field the backend reported as guessed and an optional field without
\* status were edited: both are confirmed with confidence 1 and hold the new
\* values; the other values and statuses are the backend's
C6_Witness ==
  /\ lastOp = "updateField"
  /\ extraction = Some(RespTitleEmpty)
  /\ draft.summary = <<"y">>
  /\ fieldMeta.summary = Some([status |-> "confirmed", confidence |-> 100])
  /\ draft.priority = <<"high">>
  /\ fieldMeta.priority = Some([status |-> "confirmed", confidence |-> 100])
  /\ fieldMeta.title = Some([status |-> "missing", confidence |-> 0])
  /\ fieldMeta.problem = Some([status |-> "confirmed", confidence |-> 90])
  /\ IsNull(fieldMeta.category)
  /\ draft.title = <<>> /\ draft.problem = <<"x">>

\* C8: a clarification request carries the current draft, the answer buffer
\* and the outstanding questions; on its success draft, field statuses,
\* missing-field list and questions are the response's (empty where the
\* response has none) and the answer buffer is empty
C8_ClarifyReplacesWholesale ==
  [][/\ (RunClarification /\ Trim(answersText) # <<>>) =>
          /\ clar'.pc = "clarify"
          /\ Val(clar'.req) = [draft |-> draft, answers_text |-> answersText,
                               questions |-> questions]
     /\ \A res \in Responses :
          ClarifyOk(res) =>
            /\ draft' = res.draft
            /\ fieldMeta' = IF IsNull(res.field_meta) THEN NoMeta
                            ELSE Val(res.field_meta)
            /\ missingFields' = IF IsNull(res.missing_fields) THEN <<>>
                                ELSE Val(res.missing_fields)
            /\ questions' = IF IsNull(res.questions) THEN <<>>
                            ELSE Val(res.questions)
            /\ answersText' = <<>>]_vars

\* a clarification without meta, missing list and questions has just replaced
\* a draft that had statuses, a missing field and a question
C8_Witness ==
  /\ lastOp = "clarifyOk"
  /\ extraction = Some(RespTitleEmpty)
  /\ draft = RespFull.draft
  /\ fieldMeta = NoMeta /\ missingFields = <<>> /\ questions = <<>>
  /\ answersText = <<>>

\* C9: after a successful clarify response whose draft has all six required
\* fields filled in, completeness is 100; runSubmit on a complete draft is
\* not blocked and sends its one request, with the draft, to /v1/ideas (no
\* second one while it is pending); on success the toast shows the id
C9_ClarifyThenSubmit ==
  [][/\ \A res \in Responses :
          (lastOp' = "clarifyOk" /\ ClarifyOk(res)
             /\ Filled(res.draft) = RequiredSet) =>
            completeness' = 100 /\ stillMissing' = <<>>
     /\ (lastOp' = "runSubmit" /\ RunSubmit /\ completeness = 100) =>
          /\ sub = Idle
          /\ sub'.pc = "submit"
          /\ Val(sub'.req).draft = draft
          /\ isSubmitting'
          /\ toast' = toast
     /\ \A id \in Ids :
          (lastOp' = "submitOk" /\ SubmitOk(id)) =>
            /\ toast' = Some([type |-> "ok",
                              text |-> <<"Submitted (id: ", id, ")">>])
            /\ sub' = Idle
            /\ ~isSubmitting']_vars

\* the draft of a clarify response replaced one without title, was submitted,
\* and the id the backend returned is shown
C9_Witness ==
  /\ lastOp = "submitOk"
  /\ extraction = Some(RespTitleEmpty)
  /\ draft = RespFull.draft
  /\ completeness = 100
  /\ toast = Some([type |-> "ok", text |-> <<"Submitted (id: ", "id-2", ")">>])

\* the message a failed call is reported with
FailureMessages == {HttpError(f) : f \in Failures}

\* C7 as stated: when a call of Process fails, the selected audio, the
\* transcript, the extraction result and the draft are what they were when
\* Process was triggered, and the error is shown; when clarify or submit
\* fails, draft, field statuses, missing list, questions and answer buffer
\* are left as they were and the failure is shown as a toast
C7_FailureLeavesStateIntact ==
  [][/\ \A f \in Failures :
          (ProcessFail(f) /\ ~IsNull(procBefore)) =>
            /\ audioFile' = Val(procBefore).audioFile
            /\ transcriptText' = Val(procBefore).transcript
            /\ extraction' = Val(procBefore).extraction
            /\ draft' = Val(procBefore).draft
            /\ ~IsNull(error')
     /\ \A f \in Failures :
          (ClarifyFail(f) \/ SubmitFail(f)) =>
            /\ UNCHANGED <<draft, fieldMeta, missingFields, questions,
                           answersText>>
            /\ ~IsNull(toast') /\ Val(toast').type = "err"]_vars

\* C7 as amended: when clarify or submit fails, draft, field statuses,
\* missing list, questions and answer buffer are left as they were (their
\* triggers do not change them either) and the failure is shown as an error
\* toast. When a call of Process fails, mode, selected audio and typed text
\* are what they were when Process was triggered and the failure is shown as
\* the error; the extraction result and the draft form are gone, discarded
\* by the trigger itself, and the transcript is what it was unless the
\* transcription had succeeded before the extraction failed
C7_FailureKeepsInputs ==
  [][/\ (lastOp' \in {"runProcess", "runProcess:empty"} /\ RunProcess) =>
          /\ IsNull(extraction') /\ ~FormMounted' /\ draft' = NoDraft
          /\ UNCHANGED <<mode, audioFile, manualText, transcribe>>
     /\ \A f \in Failures :
          (~IsNull(procBefore) /\ ProcessFail(f)) =>
            /\ UNCHANGED <<mode, audioFile, manualText, transcribe>>
            /\ audioFile' = Val(procBefore).audioFile
            /\ IsNull(extraction') /\ draft' = NoDraft
            /\ (proc.pc = "transcribe" \/ mode = "text") =>
                 transcriptText' = Val(procBefore).transcript
            /\ ~IsNull(error') /\ Val(error') \in FailureMessages
            /\ ~busy'
     /\ (/\ lastOp' \in {"runClarification", "runClarification:empty",
                       "runSubmit", "runSubmit:missing"}
         /\ RunClarification \/ RunSubmit) =>
          UNCHANGED <<draft, fieldMeta, missingFields, questions, answersText>>
     /\ \A f \in Failures :
          (/\ lastOp' \in {"clarifyFail", "submitFail"}
           /\ ClarifyFail(f) \/ SubmitFail(f)) =>
            /\ UNCHANGED <<draft, fieldMeta, missingFields, questions,
                           answersText>>
            /\ toast' = Some([type |-> "err", text |-> HttpError(f)])]_vars

\* the extraction of a transcribed upload has just failed: the error is
\* shown, the file is still selected, the new transcript is shown and there
\* is no extraction result
C7_Witness ==
  /\ lastOp = "extractFail"
  /\ ~IsNull(audioFile)
  /\ transcriptText = <<"t">>
  /\ IsNull(extraction)
  /\ ~IsNull(error) /\ Val(error) \in FailureMessages

\* Process has nothing to work on
EmptyInput ==
  IF mode = "text" THEN \A i \in 1..Len(manualText) : manualText[i] = " "
  ELSE IsNull(audioFile)

\* C10: Process on empty input (blank text in text mode, no audio file in
\* record or upload mode, or a transcription that comes back blank) never
\* calls the extraction endpoint, shows an error, stores no extraction result
\* and leaves no draft; no extraction is ever requested for blank text
C10_EmptyInputFailsVisibly ==
  [][/\ (RunProcess /\ EmptyInput) =>
          /\ proc' = Idle
          /\ ~IsNull(error') /\ Val(error') # <<>>
          /\ IsNull(extraction') /\ draft' = NoDraft
     /\ \A t \in TranscribeResponses :
          (TranscribeOk(t) /\ \A i \in 1..Len(t.transcript) : t.transcript[i] = " ") =>
            /\ proc' = Idle
            /\ ~IsNull(error') /\ Val(error') # <<>>
            /\ IsNull(extraction') /\ draft' = NoDraft
     /\ proc'.pc = "extract" =>
          \E i \in 1..Len(Val(proc'.req).text) : Val(proc'.req).text[i] # " "]_vars

\* Process was just triggered in text mode on white space only
C10_Witness ==
  /\ lastOp = "runProcess:empty"
  /\ mode = "text"
  /\ manualText = <<" ">>
  /\ error = Some(<<"Please paste/type your idea text first.">>)
  /\ IsNull(extraction) /\ proc = Idle

\* the mounted AudioRecorder holds nothing: it is not recording, its timer
\* is not running, and it has no recorder and no stream
ArIdle ==
  /\ arInst # 0
  /\ ~arIsRecording
  /\ ~arTimerRef[arInst]
  /\ arRecorderRef[arInst] = 0
  /\ arStreamRef[arInst] = 0

\* C11: when a start() of the mounted AudioRecorder fails because
\* getUserMedia rejects, an error message is set (the message of the error,
\* or "Microphone permission denied." when it has none); the failed start()
\* changes neither the recording flag, the timer, the recorder, the stream
\* nor the device, so an idle adapter stays idle; and whenever the adapter is
\* not recording after the failure, start() can be called again
C11_DeniedStartStaysIdle ==
  [][\A msg \in MicErrors :
       (lastOp' = "ar.denied" /\ arInst # 0 /\ ArDenied(arInst, msg)) =>
         /\ arPermissionError' =
              Some(IF msg = <<>> THEN <<"Microphone permission denied.">> ELSE msg)
         /\ UNCHANGED <<arIsRecording, arTimerRef, arRecorderRef, arStreamRef,
                        deviceVars>>
         /\ ArIdle => ArIdle'
         /\ ~arIsRecording' => (ENABLED ArStart)']_vars

\* the only start() of an idle adapter was denied with an error that has no
\* message: the fallback message is shown and nothing is held
C11_Witness ==
  /\ lastOp = "ar.denied"
  /\ ArIdle
  /\ arPermissionError = Some(<<"Microphone permission denied.">>)
  /\ nStreams = 0
  /\ \A i \in Insts : arStarts[i] = 0

\* the encodings whose name contains "ogg"
OggEncodings == {"audio/ogg;codecs=opus", "audio/ogg"}

\* C12: a recorder of the AudioRecorder that stop() has stopped delivers its
\* file exactly once: stop() puts the recorder of the session into
\* "stopping"; a stopping recorder can always deliver, it leaves "stopping"
\* only by its onstop, which hands one file to onRecordedFile, and it never
\* delivers again. The file is named recording.ogg when rec.mimeType contains
\* "ogg" and recording.webm otherwise, and its type is rec.mimeType, or
\* audio/webm when rec.mimeType is empty
C12_StopEmitsOneFile ==
  [][/\ \A r \in Streams :
          /\ (lastOp' = "ar.stop" /\ ArStop /\ arRecorderRef[arInst] = r
              /\ recs[r].state = "recording") => recs'[r].state = "stopping"
          /\ (recs[r].owner = "ar" /\ recs[r].state = "stopping") =>
               /\ ENABLED ArRecStopped(r, TRUE)
               /\ recs'[r].state # "stopping" =>
                    /\ lastOp' = "ar.onstop"
                    /\ recs'[r].state = "inactive"
                    /\ \E b \in BOOLEAN : ArRecStopped(r, b)
          /\ recs[r].state = "inactive" => recs'[r].state = "inactive"
          /\ \A b \in BOOLEAN :
               (lastOp' = "ar.onstop" /\ ArRecStopped(r, b)) =>
                 /\ ~IsNull(audioFile')
                 /\ Val(audioFile').name =
                      IF recs[r].mimeType \in OggEncodings
                      THEN "recording.ogg" ELSE "recording.webm"
                 /\ Val(audioFile').type =
                      IF recs[r].mimeType = "" THEN "audio/webm"
                      ELSE recs[r].mimeType
     /\ lastOp' # "ar.onstop" => audioFile' = audioFile \/ IsNull(audioFile')]_vars

\* a session on a browser that records ogg was ended by stop() and its file
\* has arrived at the Page
C12_Witness ==
  /\ lastOp = "ar.onstop"
  /\ arInst # 0 /\ ~arIsRecording /\ arRecorderRef[arInst] = 0
  /\ ~IsNull(arAudioUrl)
  /\ nStreams = 1 /\ recs[1].state = "inactive" /\ recs[1].inst = arInst
  /\ released[1] = 1
  /\ ~IsNull(audioFile)
  /\ Val(audioFile).name = "recording.ogg"
  /\ Val(audioFile).type = "audio/ogg;codecs=opus"

\* the first entry of the preference list the browser supports, "" if none
FirstInOrder ==
  LET S == {k \in 1..Len(Candidates) : Candidates[k] \in SupportedTypes}
  IN IF S = {} THEN ""
     ELSE Candidates[CHOOSE k \in S : \A j \in S : k <= j]

\* C13 as stated: pickMimeType selects the first supported entry of the
\* preference list; when none is supported no encoding is requested, and the
\* file of the recording is then typed audio/webm
C13_NoneSupportedIsWebm ==
  /\ pickMimeType = FirstInOrder
  /\ pickMimeType = "" <=> SupportedTypes = {}
  /\ \A r \in Streams :
       recs[r].state # "none" =>
         recs[r].mimeType = IF pickMimeType # "" THEN pickMimeType
                            ELSE platform.default
  /\ lastOp = "ar.onstop" =>
       /\ ~IsNull(audioFile)
       /\ Val(audioFile).type = IF pickMimeType # "" THEN pickMimeType
                                ELSE "audio/webm"

\* C13 as amended: pickMimeType selects the first supported entry of the
\* preference list, for every set of supported encodings; when none is
\* supported no encoding is requested, and the file of the recording is typed
\* with the encoding the recorder itself reports, audio/webm only when it
\* reports none
C13_NoneSupportedIsReported ==
  /\ pickMimeType = FirstInOrder
  /\ pickMimeType = "" <=> SupportedTypes = {}
  /\ \A r \in Streams :
       recs[r].state # "none" =>
         recs[r].mimeType = IF pickMimeType # "" THEN pickMimeType
                            ELSE platform.default
  /\ lastOp = "ar.onstop" =>
       /\ ~IsNull(audioFile)
       /\ Val(audioFile).type =
            IF pickMimeType # "" THEN pickMimeType
            ELSE IF platform.default # "" THEN platform.default
            ELSE "audio/webm"

\* a recording has been delivered on a browser that supports none of the
\* candidates and reports its own container
C13_Witness ==
  /\ lastOp = "ar.onstop"
  /\ platform.recorder /\ platform.types = {}
  /\ platform.default = "audio/mp4"
  /\ ~IsNull(audioFile)
  /\ Val(audioFile).type = "audio/mp4"
  /\ Val(audioFile).name = "recording.webm"

\* the pieces a message is put together from
Parts(msg) == {msg[i] : i \in 1..Len(msg)}

\* the non-2xx responses
HttpFailures == {f \in Failures : f.kind = "http"}

\* msg carries the status code of f and its body text, or its status text
\* when the body is empty
CarriesStatusAndBody(msg, f) ==
  /\ f.status \in Parts(msg)
  /\ (IF f.text # "" THEN f.text ELSE f.statusText) \in Parts(msg)

\* msg carries no status code of any response
CarriesNoStatus(msg) == \A f \in HttpFailures : f.status \notin Parts(msg)

\* what the Page and the form show after a 2xx answer is no call error
OkShowsNoCallError ==
  /\ \A t \in TranscribeResponses :
       (lastOp' \in {"transcribeOk", "transcribeOk:empty"} /\ TranscribeOk(t)) =>
         IsNull(error') \/ CarriesNoStatus(Val(error'))
  /\ \A ex \in Responses :
       (lastOp' = "extractOk" /\ ExtractOk(ex)) => IsNull(error')
  /\ \A res \in Responses :
       (lastOp' = "clarifyOk" /\ ClarifyOk(res)) => Val(toast').type = "ok"
  /\ \A id \in Ids :
       (lastOp' = "submitOk" /\ SubmitOk(id)) => Val(toast').type = "ok"
  /\ \A n \in 1..MaxStreams : \A t \in TranscribeResponses :
       (lastOp' = "voiceOk" /\ VoiceOk(n, t)) => CarriesNoStatus(Val(toast').text)

\* the calls made through http(): a non-2xx answer shows the status code and
\* the body text, or the status text when the body is empty
HttpCallsShowStatusAndBody ==
  \A f \in HttpFailures :
    /\ (lastOp' \in {"transcribeFail", "extractFail"} /\ ProcessFail(f)) =>
         /\ ~IsNull(error')
         /\ CarriesStatusAndBody(Val(error'), f)
    /\ (lastOp' = "clarifyFail" /\ ClarifyFail(f)) =>
         /\ Val(toast').type = "err"
         /\ CarriesStatusAndBody(Val(toast').text, f)
    /\ (lastOp' = "submitFail" /\ SubmitFail(f)) =>
         /\ Val(toast').type = "err"
         /\ CarriesStatusAndBody(Val(toast').text, f)

\* C14 as stated: on every endpoint a non-2xx answer is shown with its status
\* code and its body text, or its status text when the body is empty; this
\* includes the transcription of a voice answer; a 2xx answer shows no call
\* error
C14_EveryCallShowsStatusAndBody ==
  [][/\ HttpCallsShowStatusAndBody
     /\ \A f \in HttpFailures : \A n \in 1..MaxStreams :
          (lastOp' = "voiceFail" /\ VoiceFail(n, f)) =>
            /\ Val(toast').type = "err"
            /\ CarriesStatusAndBody(Val(toast').text, f)
     /\ OkShowsNoCallError]_vars

\* C14 as amended: a non-2xx answer to a call made through http() (the
\* transcribe and extract calls of Process, clarify, submit) is shown with
\* its status code and its body text, or its status text when the body is
\* empty; a non-2xx answer to the transcription of a voice answer is shown as
\* "Transcription failed (<status>). <body>", with nothing in place of an
\* empty body; a 2xx answer shows no call error
C14_CallsShowStatus ==
  [][/\ HttpCallsShowStatusAndBody
     /\ \A f \in HttpFailures : \A n \in 1..MaxStreams :
          (lastOp' = "voiceFail" /\ VoiceFail(n, f)) =>
            /\ Val(toast').type = "err"
            /\ Val(toast').text = <<"Transcription failed (", f.status, "). ", f.text>>
     /\ OkShowsNoCallError]_vars

\* the transcription of a voice answer was answered 500 with an empty body
C14_Witness ==
  /\ lastOp = "voiceFail"
  /\ ~IsNull(toast)
  /\ Val(toast).text = <<"Transcription failed (", "500", "). ", "">>

\* getUserMedia calls of the form that have not returned, mounted or not
FmPendingTotal == fmStarts + fmGhostStarts

\* C15: no request is re-sent automatically. A transcribe request is sent
\* only by the Process trigger, an extract request only by the Process
\* trigger (text mode) or by the transcribe answer of the same run, a clarify
\* request only by Apply clarification, a submit request only by Submit, a
\* voice transcription only by the stop of one recorder, and each of them
\* one at a time; a failed call leaves no request behind; a request for the
\* microphone is made only by the Start or Record button, and a denied one
\* is not repeated
C15_NoAutomaticResend ==
  [][/\ (proc' # proc /\ proc'.pc = "transcribe") =>
          lastOp' = "runProcess" /\ proc = Idle
     /\ (proc' # proc /\ proc'.pc = "extract") =>
          \/ lastOp' = "runProcess" /\ proc = Idle
          \/ lastOp' = "transcribeOk" /\ proc.pc = "transcribe"
     /\ (clar' # clar /\ clar' # Idle) =>
          lastOp' = "runClarification" /\ clar = Idle
     /\ (sub' # sub /\ sub' # Idle) => lastOp' = "runSubmit" /\ sub = Idle
     /\ Len(voice') > Len(voice) =>
          lastOp' = "fm.onstop" /\ Len(voice') = Len(voice) + 1
     /\ \A f \in Failures :
          /\ (lastOp' \in {"transcribeFail", "extractFail"} /\ ProcessFail(f)) =>
               proc' = Idle
          /\ (lastOp' = "clarifyFail" /\ ClarifyFail(f)) => clar' = Idle
          /\ (lastOp' = "submitFail" /\ SubmitFail(f)) => sub' = Idle
          /\ \A n \in 1..MaxStreams :
               (lastOp' = "voiceFail" /\ VoiceFail(n, f)) =>
                 Len(voice') = Len(voice) - 1
     /\ ArPendingTotal' > ArPendingTotal =>
          lastOp' = "ar.start" /\ ArPendingTotal' = ArPendingTotal + 1
     /\ FmPendingTotal' > FmPendingTotal =>
          lastOp' = "startRecording" /\ FmPendingTotal' = FmPendingTotal + 1
     /\ \A msg \in MicErrors :
          /\ \A i \in Insts :
               (lastOp' = "ar.denied" /\ ArDenied(i, msg)) =>
                 ArPendingTotal' = ArPendingTotal - 1
          /\ (lastOp' = "fm.denied" /\ FmDenied(msg)) =>
               FmPendingTotal' = FmPendingTotal - 1]_vars

\* the transcribe call of a Process run has failed: nothing is pending and
\* the Process button is enabled again
C15_Witness ==
  /\ lastOp = "transcribeFail"
  /\ proc = Idle /\ ~busy
  /\ ~IsNull(error)
  /\ ~IsNull(audioFile)

\* C16: the input mode is always one of record, upload, text, and record
\* after loading; it changes only in a step of the mode selector, to the mode
\* selected; and in every reachable state, also while a call of Process,
\* clarification or submission is pending, each of the three modes can be
\* selected
C16_ModeOnlyBySelection ==
  /\ [](/\ mode \in InputModes
        /\ lastOp = "init" => mode = "record"
        /\ \A m \in InputModes : ENABLED SetMode(m))
  /\ [][mode' # mode => lastOp' = "setMode" /\ SetMode(mode')]_vars

\* text mode was selected while the extraction call of a Process run in
\* upload mode was pending
C16_Witness ==
  /\ lastOp = "setMode"
  /\ mode = "text"
  /\ busy /\ proc.pc = "extract"
  /\ Val(proc.req).text = <<" ", "t">>

\* C17: a getUserMedia call that returns to a component that has left the
\* tree is not applied: the step changes nothing the user sees, starts no
\* recorder and leaves no stream acquired and unreleased
C17_TornDownCallsAreVoid ==
  [][/\ \A i \in Insts : \A o \in Outcomes :
          (lastOp' = "ar.granted" /\ i # arInst /\ ArGranted(i, o)) =>
            /\ UNCHANGED <<pageVars, formVars, arStateVars>>
            /\ \A r \in Streams : recs'[r].state = "recording" => recs[r].state = "recording"
            /\ \A s \in Streams : Live(s)' => Live(s)
     /\ \A o \in Outcomes :
          (lastOp' = "fm.ghostGranted" /\ FmGhostGranted(o)) =>
            /\ UNCHANGED <<pageVars, formVars, arStateVars>>
            /\ \A r \in Streams : recs'[r].state = "recording" => recs[r].state = "recording"
            /\ \A s \in Streams : Live(s)' => Live(s)]_vars

\* C18: when the AudioRecorder leaves the tree while it holds a stream, the
\* stream is released, the chunk buffer is cleared and the timer is stopped;
\* when the form leaves the tree while it holds a stream, the stream is
\* released
C18_TeardownDestroysSession ==
  [][/\ (lastOp' = "setMode" /\ arInst # 0 /\ arInst' = 0
         /\ arStreamRef[arInst] # 0) =>
          /\ released'[arStreamRef[arInst]] = 1
          /\ arChunksRef'[arInst] = <<>>
          /\ ~arTimerRef'[arInst]
     /\ (FormMounted /\ ~FormMounted' /\ streamRef # 0 /\ Live(streamRef)) =>
          released'[streamRef] = 1]_vars

C20_FileHoldsOwnChunks ==
  [][\A r \in Streams : \A b \in BOOLEAN :
       (lastOp' = "ar.onstop" /\ ArRecStopped(r, b)) =>
         /\ ~IsNull(audioFile')
         /\ Val(audioFile').data = IF b THEN <<r>> ELSE <<>>]_vars

\* C21: Apply clarification on an answer buffer that is empty or white space
\* only sends no clarify request, shows an error notification, leaves
\* isClarifying false and leaves draft, field statuses, missing list and
\* questions as they were
C21_BlankAnswersSendNothing ==
  [][(lastOp' \in {"runClarification", "runClarification:empty"}
      /\ RunClarification
      /\ \A i \in 1..Len(answersText) : answersText[i] = " ") =>
        /\ clar' = Idle
        /\ ~isClarifying'
        /\ ~IsNull(toast') /\ Val(toast').type = "err"
        /\ UNCHANGED <<draft, fieldMeta, missingFields, questions, answersText>>]_vars

\* Apply clarification was just pressed on a buffer holding one space
C21_Witness ==
  /\ lastOp = "runClarification:empty"
  /\ answersText = <<" ">>
  /\ clar = Idle /\ ~isClarifying
  /\ ~IsNull(toast) /\ Val(toast).type = "err"

\* what the form shows of the backend's answer
FormData == <<draft, fieldMeta, missingFields, questions>>

\* C22: while the form stays mounted, draft, field statuses, missing list
\* and questions change only in a field edit or in the step that receives a
\* successful clarification response; submissions (sent, answered, failed or
\* blocked), failed clarifications, voice recordings and their
\* transcriptions leave all four unchanged
C22_DraftChangesOnlyByEditOrClarify ==
  [][(FormMounted /\ FormMounted') =>
       /\ FormData' # FormData => lastOp' \in {"updateField", "clarifyOk"}
       /\ lastOp' \in {"runSubmit", "runSubmit:missing", "submitOk", "submitFail",
                       "clarifyFail", "runClarification",
                       "runClarification:empty", "startRecording", "fm.denied",
                       "fm.granted", "stopRecording", "fm.onstop", "voiceOk",
                       "voiceFail"} => FormData' = FormData]_vars

\* a voice answer was transcribed into the answer buffer after the title was
\* edited, and the rest of the draft is still the one the form was mounted on
C22_Witness ==
  /\ lastOp = "voiceOk"
  /\ answersText # <<>>
  /\ draft # Val(extraction).draft
  /\ [draft EXCEPT !["title"] = <<>>] = Val(extraction).draft
  /\ questions = <<"What is the title?">>
  /\ missingFields = <<"title">>

\* C23: when an extraction result arrives and the form is mounted on it, the
\* input selected for the current mode is still the one the run was started
\* on, and the transcript the form will send with a submission is the text
\* the draft was extracted from; while the form stays mounted, the selected
\* input and the transcript, language and dialect hint handed to it do not
\* change
C23_ExtractionMatchesInput ==
  [][/\ \A ex \in Responses :
          (lastOp' = "extractOk" /\ ExtractOk(ex)) =>
            /\ ~IsNull(procBefore)
            /\ Val(procBefore).audioFile = audioFile'
            /\ Trim(Val(proc.req).text) = transcriptText'
     /\ (FormMounted /\ FormMounted' /\ extraction' = extraction) =>
          /\ transcriptText' = transcriptText
          /\ transcribe' = transcribe
          /\ audioFile' = audioFile]_vars

\* a voice answer of the mounted form is being recorded, is waiting for its
\* recorder to deliver, or is being transcribed
VoiceInProgress ==
  \/ isRecording
  \/ isTranscribing
  \/ voice # <<>>
  \/ \E r \in Streams :
       /\ recs[r].owner = "form" /\ recs[r].inst = 1
       /\ recs[r].state \in {"recording", "stopping"}

\* C24: a clarification request is never pending while a voice answer of the
\* form is being recorded, delivered or transcribed
C24_ClarifyExcludesVoice == ~(clar.pc = "clarify" /\ VoiceInProgress)


\* C25: a field edited while a clarification request is pending keeps its
\* value and its confirmed status when the response of that request arrives
C25_PendingEditSurvivesResponse ==
  [][/\ lastOp' = "clarifyOk"
     /\ clar.pc = "clarify"
     /\ draft.title # Val(clar.req).draft.title
     => /\ draft'.title = draft.title
        /\ fieldMeta'.title = fieldMeta.title]_vars


\* C26: at most one submission request is in flight at any time: while the
\* submission of the mounted form is pending, no submission of an earlier
\* form is still pending
C26_OneSubmissionInFlight == ~(sub.pc = "submit" /\ SubmitsInFlight # {})


\* provided every awaited call returns or fails, each in-progress flag that
\* is set is cleared again later
FlagsClearedInTheEnd ==
  /\ busy ~> ~busy
  /\ isClarifying ~> ~isClarifying
  /\ isSubmitting ~> ~isSubmitting
  /\ isTranscribing ~> ~isTranscribing

\* C27: an in-progress flag is set only while the call of its handler is
\* awaited, and every exit of the handler leaves it cleared: the return or
\* the failure of the awaited call, a validation failure and an empty
\* transcript; busy stays set only from the transcription to the extraction
\* of one Process run
C27_EveryExitClearsItsFlag ==
  /\ [](/\ busy <=> proc.pc \in {"transcribe", "extract"}
        /\ isClarifying => clar.pc = "clarify"
        /\ isSubmitting => sub.pc = "submit"
        /\ isTranscribing => voice # <<>>)
  /\ [][/\ lastOp' \in {"runProcess:empty", "transcribeOk:empty",
                        "transcribeFail", "extractFail", "extractOk"} => ~busy'
        /\ (lastOp' = "transcribeOk" /\ busy') => proc'.pc = "extract"
        /\ lastOp' \in {"runClarification:empty", "clarifyOk", "clarifyFail"} =>
             ~isClarifying'
        /\ lastOp' \in {"runSubmit:missing", "submitOk", "submitFail"} =>
             ~isSubmitting'
        /\ lastOp' \in {"voiceOk", "voiceFail"} => ~isTranscribing']_vars

\* the transcription of a voice answer has just failed and the form is not
\* transcribing any more
C27_Witness ==
  /\ lastOp = "voiceFail"
  /\ ~isTranscribing /\ ~busy /\ ~isClarifying /\ ~isSubmitting
  /\ toast # None /\ Val(toast).type = "err"


\* C28: a notification is dismissed only by its own timer: while the timer
\* of the notification shown last is pending, a notification is displayed
C28_ToastStaysUntilOwnTimer == toastTimers > 0 => toast # None


\* C29: while the form is shown, a required field is in the displayed
\* missing-fields list exactly when its value in the current draft is empty
C29_MissingListAgreesWithDraft ==
  FormMounted =>
    \A i \in 1..Len(REQUIRED_FIELDS) :
      (\E j \in 1..Len(missingFields) : missingFields[j] = REQUIRED_FIELDS[i])
        <=> (\E j \in 1..Len(stillMissing) : stillMissing[j] = REQUIRED_FIELDS[i])


\* the marker transcribeAndFill puts between the text held and a voice answer
VoiceMark == <<"\n", "\n", "[Voice]", "\n">>

\* C30: a voice transcript that is not blank becomes the answer buffer when
\* the buffer is blank, and is otherwise appended, trimmed, after the trimmed
\* text the buffer holds when the transcription returns and the voice
\* marker; a blank transcript and a failed transcription leave the buffer
\* unchanged
C30_VoiceExtendsAnswers ==
  [][/\ \A n \in 1..MaxStreams : \A t \in TranscribeResponses :
          (lastOp' = "voiceOk" /\ VoiceOk(n, t)) =>
            LET held == Trim(answersText)
                text == Trim(t.transcript)
            IN /\ text = <<>> => answersText' = answersText
               /\ (text # <<>> /\ held = <<>>) => answersText' = text
               /\ (text # <<>> /\ held # <<>>) =>
                    /\ answersText' = held \o VoiceMark \o text
                    /\ SubSeq(answersText', 1, Len(held)) = held
     /\ lastOp' = "voiceFail" => answersText' = answersText]_vars

\* a voice answer was appended to text the buffer held
C30_Witness ==
  /\ lastOp = "voiceOk"
  /\ answersText = <<"a">> \o VoiceMark \o <<"t">>
  /\ ~isTranscribing

====
